---- MODULE Spec2Model ----
(***************************************************************************)
(* Checkpoint / resume protocol of the adapter runner (run_adapter) with   *)
(* its two reference adapters (LangGraphAdapter, SleepingAdapter), run as  *)
(* one thread of a durable-execution host that retries failed attempts and *)
(* hands back the last heartbeat payload it received.                      *)
(***************************************************************************)
EXTENDS Integers, Sequences, FiniteSets, TLC

\* ------------------------------------------------------------------ bounds
MaxSteps == 3             \* largest number of steps of a task
MaxAttempts == 3          \* attempts the host makes for one thread
MaxBackgroundBeats == 2   \* background heartbeats followed within one attempt

\* ------------------------------------------------------------ data model
None == [absent |-> TRUE]          \* Python None where a record is optional
NoId == 0                          \* checkpoint_id = None (ids are 1, 2, ...)
NoNode == "None"                   \* current_node = None

ThreadIds == {"wf-1", "wf-2"}
AdapterKinds == {"langgraph", "sleeping"}
ErrorTypes == {"RateLimitError", "APIConnectionError"}
SleepSecondsChoices == {1, 2}

\* AgentCheckpoint(thread_id=...) with the dataclass defaults
AgentCheckpoint(tid) ==
    [thread_id |-> tid, checkpoint_id |-> NoId, superstep_count |-> 0,
     current_node |-> NoNode]

StepResult(number, name, cid) ==
    [step_number |-> number, step_name |-> name, checkpoint_id |-> cid]

\* The payload of a heartbeat on the wire: the dataclass as a dict of its fields.
Encode(c) ==
    [thread_id |-> c.thread_id, checkpoint_id |-> c.checkpoint_id,
     superstep_count |-> c.superstep_count, current_node |-> c.current_node]

\* a restore that loses the payload
RestoreCheckpointLost(details) == None

\* _restore_checkpoint: no details -> None, else AgentCheckpoint(**details[0])
RestoreCheckpoint(details) ==
    IF details = <<>> THEN None
    ELSE [thread_id |-> details[1].thread_id,
          checkpoint_id |-> details[1].checkpoint_id,
          superstep_count |-> details[1].superstep_count,
          current_node |-> details[1].current_node]

\* names of the graph's nodes in execution order (search -> analyze -> report),
\* continued for longer graphs
GraphNodeNames == <<"search", "analyze", "report", "node_4", "node_5", "node_6">>
NodeName(i) == GraphNodeNames[i]

\* step names counted from zero
SleepNameFromZero(step) == <<"sleep_0", "sleep_1", "sleep_2", "sleep_3", "sleep_4", "sleep_5">>[step]

\* f"sleep_{step}"
SleepStepNames == <<"sleep_1", "sleep_2", "sleep_3", "sleep_4", "sleep_5", "sleep_6">>
SleepName(step) == SleepStepNames[step]

\* the report the last node writes into the graph state, and the state's default
FinalReportText == "final report"
NoReport == ""

VARIABLES
    adapter_kind,        \* which adapter the activity runs
    thread_id,           \* info.workflow_id
    num_steps,           \* nodes of the graph / SleepingInput.num_steps
    sleep_seconds,       \* SleepingInput.sleep_seconds
    attempt,             \* info.attempt
    pc,                  \* position of the attempt
    host_details,        \* last heartbeat payload the host received (<<>> or <<p>>)
    heartbeat_details,   \* info.heartbeat_details of the running attempt
    checkpoint,          \* run_adapter's local `checkpoint`
    current_checkpoint,  \* run_adapter's local `current_checkpoint`
    heartbeat_task,      \* "none" | "running" | "cancelled" | "killed"
    lg,                  \* LangGraphAdapter fields
    sl,                  \* SleepingAdapter fields and its loop variable
    store,               \* the external state store's row for the thread
    stream_input,        \* what LangGraphAdapter.run passed to astream
    output,              \* value returned by run_adapter
    raised,              \* exception raised inside adapter.run
    failure,             \* failure the host observed for the attempt
    failed_step,         \* number of the step that was executing when run raised
    yielded,             \* step numbers yielded to the runner in this attempt
    immediate_beats,     \* immediate post-step heartbeats sent in this attempt
    background_beats,    \* background heartbeats sent in this attempt
    last_beat,           \* kind of the attempt's latest heartbeat
    final_output_calls,  \* calls of get_final_output in this attempt
    executed             \* executed[i]: completed executions of unit i in the thread

vars == <<adapter_kind, thread_id, num_steps, sleep_seconds, attempt, pc,
          host_details, heartbeat_details, checkpoint, current_checkpoint,
          heartbeat_task, lg, sl, store, stream_input, output, raised, failure,
          failed_step, yielded, immediate_beats, background_beats, last_beat,
          final_output_calls, executed>>

\* ------------------------------------------------------- external store
\* The graph engine's persisted state for the thread: whether a run was started,
\* how many supersteps of it are saved, the id of the latest snapshot. A saved
\* superstep is never executed again when the run is continued with None; a
\* fresh input starts a new run of the thread at the entry node.
EmptyStore == [started |-> FALSE, pos |-> 0, cid |-> NoId]

\* state.next of aget_state: the pending nodes
StoreNext(s) == IF s.started /\ s.pos < num_steps THEN {NodeName(s.pos + 1)} ELSE {}

\* state.values.get("final_report", "")
StoreFinalReport(s) ==
    IF s.started /\ s.pos = num_steps THEN FinalReportText ELSE NoReport

\* --------------------------------------------------------------- adapters
\* LangGraphAdapter.__init__
LangGraphInit == [superstep_count |-> 0, resuming |-> FALSE]

\* SleepingAdapter.__init__ (step: the loop variable of run, not yet bound)
SleepingInit == [steps_completed |-> 0, total_sleep_time |-> 0, step |-> 0]

\* every adapter declaring the capability
SupportsCheckpointingAlways(kind) == TRUE

SupportsCheckpointing(kind) == kind = "langgraph"

\* setup that resumes whenever a checkpoint is supplied, whatever the store holds
LangGraphSetupResumeOnCheckpoint(ckpt) ==
    [superstep_count |-> IF ckpt # None THEN ckpt.superstep_count
                         ELSE lg.superstep_count,
     resuming |-> ckpt # None]

\* LangGraphAdapter.setup
LangGraphSetup(ckpt) ==
    [superstep_count |-> IF ckpt # None THEN ckpt.superstep_count
                         ELSE lg.superstep_count,
     resuming |-> StoreNext(store) # {}]

\* SleepingAdapter.setup
SleepingSetup(ckpt) == [sl EXCEPT !.steps_completed = 0, !.total_sleep_time = 0]

\* ------------------------------------------------------------ run_adapter
\* the branch without the capability check: a restored checkpoint is kept
RestoreBranchKeep(restored, supports) ==
    IF restored # None THEN restored ELSE AgentCheckpoint(thread_id)

\* The three-way branch on the restored checkpoint
RestoreBranch(restored, supports) ==
    IF restored # None /\ supports THEN restored
    ELSE IF restored # None /\ ~supports THEN None
    ELSE AgentCheckpoint(thread_id)

\* `checkpoint or AgentCheckpoint(thread_id=thread_id)`
OrFresh(ckpt) == IF ckpt # None THEN ckpt ELSE AgentCheckpoint(thread_id)

Init ==
    /\ adapter_kind \in AdapterKinds
    /\ thread_id \in ThreadIds
    /\ num_steps \in 1..MaxSteps
    /\ sleep_seconds \in SleepSecondsChoices
    /\ attempt = 1
    /\ pc = "scheduled"
    /\ host_details = <<>>
    /\ heartbeat_details = <<>>
    /\ checkpoint = None
    /\ current_checkpoint = None
    /\ heartbeat_task = "none"
    /\ lg = LangGraphInit
    /\ sl = SleepingInit
    /\ store = EmptyStore
    /\ stream_input = "unset"
    /\ output = None
    /\ raised = "none"
    /\ failure = "none"
    /\ failed_step = 0
    /\ yielded = <<>>
    /\ immediate_beats = 0
    /\ background_beats = 0
    /\ last_beat = "none"
    /\ final_output_calls = 0
    /\ executed = [i \in 1..num_steps |-> 0]

\* run_adapter's heartbeat without the initial one: setup comes first
NoInitialHeartbeat(ckpt) == UNCHANGED <<host_details, last_beat>>

\* activity.heartbeat(checkpoint or AgentCheckpoint(thread_id=thread_id))
InitialHeartbeat(ckpt) ==
    /\ host_details' = <<Encode(OrFresh(ckpt))>>
    /\ last_beat' = "initial"

\* The host starts the attempt: a fresh adapter is constructed and run_adapter
\* runs up to the initial heartbeat (no suspension point in between).
AttemptStart ==
    /\ pc = "scheduled"
    /\ heartbeat_details' = host_details
    /\ LET restored == RestoreCheckpoint(host_details)
           ckpt == RestoreBranch(restored, SupportsCheckpointing(adapter_kind))
       IN /\ checkpoint' = ckpt
          /\ InitialHeartbeat(ckpt)
    /\ lg' = LangGraphInit
    /\ sl' = SleepingInit
    /\ pc' = "setup"
    /\ UNCHANGED <<adapter_kind, thread_id, num_steps, sleep_seconds, attempt,
                   current_checkpoint, heartbeat_task, store, stream_input, output,
                   raised, failure, failed_step, yielded, immediate_beats,
                   background_beats, final_output_calls, executed>>

\* adapter.setup, then current_checkpoint and the background task are created
Setup ==
    /\ pc = "setup"
    /\ IF adapter_kind = "langgraph"
       THEN lg' = LangGraphSetup(checkpoint) /\ sl' = sl
       ELSE sl' = SleepingSetup(checkpoint) /\ lg' = lg
    /\ current_checkpoint' = OrFresh(checkpoint)
    /\ heartbeat_task' = "running"
    /\ pc' = "run"
    /\ UNCHANGED <<adapter_kind, thread_id, num_steps, sleep_seconds, attempt,
                   host_details, heartbeat_details, checkpoint, store, stream_input,
                   output, raised, failure, failed_step, yielded, immediate_beats,
                   background_beats, last_beat, final_output_calls, executed>>

\* run that always continues the thread
LangGraphRunBeginAlwaysNone ==
    /\ stream_input' = "None"
    /\ store' = store
    /\ pc' = "step"
    /\ UNCHANGED <<lg, sl>>

\* First __anext__ of adapter.run: the adapter picks the stream input and the
\* graph engine starts (fresh input: a new run of the thread from the entry
\* node, its input snapshot saved) or continues (None: from the pending nodes).
LangGraphRunBegin ==
    /\ stream_input' = IF lg.resuming THEN "None" ELSE "fresh"
    /\ store' = IF lg.resuming THEN store
                ELSE [started |-> TRUE, pos |-> 0, cid |-> store.cid + 1]
    /\ pc' = "step"
    /\ UNCHANGED <<lg, sl>>

SleepingRunBegin ==
    /\ sl' = [sl EXCEPT !.step = 1]
    /\ pc' = IF 1 <= num_steps THEN "step" ELSE "exhausted"
    /\ UNCHANGED <<lg, store, stream_input>>

RunBegin ==
    /\ pc = "run"
    /\ IF adapter_kind = "langgraph" THEN LangGraphRunBegin ELSE SleepingRunBegin
    /\ UNCHANGED <<adapter_kind, thread_id, num_steps, sleep_seconds, attempt,
                   host_details, heartbeat_details, checkpoint, current_checkpoint,
                   heartbeat_task, output, raised, failure, failed_step, yielded,
                   immediate_beats, background_beats, last_beat, final_output_calls, executed>>

\* the update that keeps the count of the checkpoint it started with
UpdateCheckpointKeepCount(c, sr) ==
    [c EXCEPT !.current_node = sr.step_name,
              !.checkpoint_id = IF sr.checkpoint_id # NoId THEN sr.checkpoint_id
                                ELSE @]

\* the update that takes the StepResult's checkpoint_id whether it has one or not
UpdateCheckpointOverwriteId(c, sr) ==
    [c EXCEPT !.superstep_count = sr.step_number,
              !.current_node = sr.step_name,
              !.checkpoint_id = sr.checkpoint_id]

\* Body of the runner's `async for`: update the checkpoint from the StepResult
UpdateCheckpoint(c, sr) ==
    [c EXCEPT !.superstep_count = sr.step_number,
              !.current_node = sr.step_name,
              !.checkpoint_id = IF sr.checkpoint_id # NoId THEN sr.checkpoint_id
                                ELSE @]

\* the loop body with the heartbeat tied to the checkpoint_id, like its log line
HandleStepResultBeatOnCheckpointId(sr) ==
    /\ current_checkpoint' = UpdateCheckpoint(current_checkpoint, sr)
    /\ yielded' = Append(yielded, sr.step_number)
    /\ IF sr.checkpoint_id # NoId
       THEN /\ host_details' = <<Encode(UpdateCheckpoint(current_checkpoint, sr))>>
            /\ immediate_beats' = immediate_beats + 1
            /\ last_beat' = "immediate"
       ELSE UNCHANGED <<host_details, immediate_beats, last_beat>>

\* the loop body leaving the heartbeat to the background loop
HandleStepResultNoBeat(sr) ==
    /\ current_checkpoint' = UpdateCheckpoint(current_checkpoint, sr)
    /\ yielded' = Append(yielded, sr.step_number)
    /\ UNCHANGED <<host_details, immediate_beats, last_beat>>

\* ... and heartbeat it at once
HandleStepResult(sr) ==
    /\ current_checkpoint' = UpdateCheckpoint(current_checkpoint, sr)
    /\ yielded' = Append(yielded, sr.step_number)
    /\ host_details' = <<Encode(UpdateCheckpoint(current_checkpoint, sr))>>
    /\ immediate_beats' = immediate_beats + 1
    /\ last_beat' = "immediate"

\* A superstep of the graph completes: the engine saves its snapshot and emits
\* the event; the adapter counts it and waits for aget_state.
LangGraphExecStep ==
    /\ adapter_kind = "langgraph"
    /\ pc = "step"
    /\ store' = [store EXCEPT !.pos = @ + 1, !.cid = @ + 1]
    /\ executed' = [executed EXCEPT ![store.pos + 1] = @ + 1]
    /\ lg' = [lg EXCEPT !.superstep_count = @ + 1]
    /\ pc' = "yield"
    /\ UNCHANGED <<adapter_kind, thread_id, num_steps, sleep_seconds, attempt,
                   host_details, heartbeat_details, checkpoint, current_checkpoint,
                   heartbeat_task, sl, stream_input, output, raised, failure,
                   failed_step, yielded, immediate_beats, background_beats, last_beat,
                   final_output_calls>>

\* aget_state returns, the adapter yields the StepResult and the runner handles
\* it; the next __anext__ then starts the next superstep or ends the stream.
LangGraphYieldStep ==
    /\ adapter_kind = "langgraph"
    /\ pc = "yield"
    /\ HandleStepResult(StepResult(lg.superstep_count, NodeName(store.pos), store.cid))
    /\ pc' = IF store.pos < num_steps THEN "step" ELSE "exhausted"
    /\ UNCHANGED <<adapter_kind, thread_id, num_steps, sleep_seconds, attempt,
                   heartbeat_details, checkpoint, heartbeat_task, lg, sl, store,
                   stream_input, output, raised, failure, failed_step,
                   background_beats, final_output_calls, executed>>

\* One iteration of SleepingAdapter.run: the sleep ends, the counters are set,
\* the StepResult is yielded and handled, the loop moves on.
SleepingExecStep ==
    /\ adapter_kind = "sleeping"
    /\ pc = "step"
    /\ sl' = [steps_completed |-> sl.step,
              total_sleep_time |-> sl.total_sleep_time + sleep_seconds,
              step |-> sl.step + 1]
    /\ executed' = [executed EXCEPT ![sl.step] = @ + 1]
    /\ HandleStepResult(StepResult(sl.step, SleepName(sl.step), NoId))
    /\ pc' = IF sl.step + 1 <= num_steps THEN "step" ELSE "exhausted"
    /\ UNCHANGED <<adapter_kind, thread_id, num_steps, sleep_seconds, attempt,
                   heartbeat_details, checkpoint, heartbeat_task, lg, store,
                   stream_input, output, raised, failure, failed_step,
                   background_beats, final_output_calls>>

\* get_final_output of the two adapters
LangGraphFinalOutput ==
    [final_report |-> StoreFinalReport(store), thread_id |-> thread_id,
     superstep_count |-> lg.superstep_count]

SleepingFinalOutput ==
    [steps_completed |-> sl.steps_completed,
     total_sleep_time |-> sl.total_sleep_time]

\* cleanup that is skipped: the background task is left running
NoFinally == UNCHANGED heartbeat_task

\* the `finally` of run_adapter: cancel the background task and await it (the
\* task exists once setup has returned, which is where the try block starts)
Finally ==
    heartbeat_task' = IF heartbeat_task = "running" THEN "cancelled"
                      ELSE heartbeat_task

\* the return held up until the background task ends by itself
FinishWaitsForHeartbeatLoop ==
    /\ pc = "exhausted"
    /\ heartbeat_task # "running"
    /\ output' = IF adapter_kind = "langgraph" THEN LangGraphFinalOutput
                 ELSE SleepingFinalOutput
    /\ final_output_calls' = final_output_calls + 1
    /\ pc' = "returned"
    /\ UNCHANGED <<adapter_kind, thread_id, num_steps, sleep_seconds, attempt,
                   host_details, heartbeat_details, checkpoint, current_checkpoint,
                   heartbeat_task, lg, sl, store, stream_input, raised, failure,
                   failed_step, yielded, immediate_beats, background_beats,
                   last_beat, executed>>

\* The sequence is exhausted: get_final_output, return, finally.
Finish ==
    /\ pc = "exhausted"
    /\ output' = IF adapter_kind = "langgraph" THEN LangGraphFinalOutput
                 ELSE SleepingFinalOutput
    /\ final_output_calls' = final_output_calls + 1
    /\ Finally
    /\ pc' = "returned"
    /\ UNCHANGED <<adapter_kind, thread_id, num_steps, sleep_seconds, attempt,
                   host_details, heartbeat_details, checkpoint, current_checkpoint,
                   lg, sl, store, stream_input, raised, failure, failed_step,
                   yielded, immediate_beats, background_beats, last_beat, executed>>

\* the loop with the exception of a step caught: the attempt ends normally with
\* whatever get_final_output reads
AdapterRaisesSwallowed ==
    /\ adapter_kind = "langgraph"
    /\ pc = "step"
    /\ \E err \in ErrorTypes : raised' = err
    /\ failed_step' = lg.superstep_count + 1
    /\ output' = LangGraphFinalOutput
    /\ final_output_calls' = final_output_calls + 1
    /\ Finally
    /\ pc' = "returned"
    /\ UNCHANGED <<adapter_kind, thread_id, num_steps, sleep_seconds, attempt,
                   host_details, heartbeat_details, checkpoint, current_checkpoint,
                   lg, sl, store, stream_input, failure, yielded, immediate_beats,
                   background_beats, last_beat, executed>>

\* A node of the graph raises while its superstep executes: nothing of the
\* step is saved or yielded, the exception leaves run_adapter through finally.
AdapterRaises ==
    /\ adapter_kind = "langgraph"
    /\ pc = "step"
    /\ \E err \in ErrorTypes :
          /\ raised' = err
          /\ failure' = err
    /\ failed_step' = lg.superstep_count + 1
    /\ Finally
    /\ pc' = "failed"
    /\ UNCHANGED <<adapter_kind, thread_id, num_steps, sleep_seconds, attempt,
                   host_details, heartbeat_details, checkpoint, current_checkpoint,
                   lg, sl, store, stream_input, output, yielded, immediate_beats,
                   background_beats, last_beat, final_output_calls, executed>>

InAttempt == pc \in {"setup", "run", "step", "yield", "exhausted"}

\* The host cancels the attempt (its start-to-close or heartbeat timeout ran
\* out): CancelledError is raised at the current suspension point and leaves
\* run_adapter through finally; the timed-out attempt is retried like a failed one.
AttemptCancelled ==
    /\ InAttempt
    /\ failure' = "CancelledError"
    /\ Finally
    /\ pc' = "failed"
    /\ UNCHANGED <<adapter_kind, thread_id, num_steps, sleep_seconds, attempt,
                   host_details, heartbeat_details, checkpoint, current_checkpoint,
                   lg, sl, store, stream_input, output, raised, failed_step,
                   yielded, immediate_beats, background_beats, last_beat, final_output_calls,
                   executed>>

\* The worker process dies: nothing of the attempt runs any more, the host
\* notices the missing heartbeats.
WorkerCrash ==
    /\ InAttempt
    /\ failure' = "HeartbeatTimeout"
    /\ heartbeat_task' = IF heartbeat_task = "running" THEN "killed"
                         ELSE heartbeat_task
    /\ pc' = "failed"
    /\ UNCHANGED <<adapter_kind, thread_id, num_steps, sleep_seconds, attempt,
                   host_details, heartbeat_details, checkpoint, current_checkpoint,
                   lg, sl, store, stream_input, output, raised, failed_step,
                   yielded, immediate_beats, background_beats, last_beat, final_output_calls,
                   executed>>

\* heartbeat_loop sending a copy of the checkpoint taken when the task was made
BackgroundPayloadCopied == Encode(OrFresh(checkpoint))

\* what heartbeat_loop sends: the checkpoint object as it is now
BackgroundPayload == Encode(current_checkpoint)

\* heartbeats sent only between steps, when a StepResult is handed over
BackgroundHeartbeatAtStepBoundary ==
    /\ heartbeat_task = "running"
    /\ pc = "yield"
    /\ background_beats < MaxBackgroundBeats
    /\ host_details' = <<BackgroundPayload>>
    /\ background_beats' = background_beats + 1
    /\ last_beat' = "background"
    /\ UNCHANGED <<adapter_kind, thread_id, num_steps, sleep_seconds, attempt, pc,
                   heartbeat_details, checkpoint, current_checkpoint,
                   heartbeat_task, lg, sl, store, stream_input, output, raised,
                   failure, failed_step, yielded, immediate_beats,
                   final_output_calls, executed>>

\* heartbeat_loop wakes up after heartbeat_interval and sends
BackgroundHeartbeat ==
    /\ heartbeat_task = "running"
    /\ background_beats < MaxBackgroundBeats
    /\ host_details' = <<BackgroundPayload>>
    /\ background_beats' = background_beats + 1
    /\ last_beat' = "background"
    /\ UNCHANGED <<adapter_kind, thread_id, num_steps, sleep_seconds, attempt, pc,
                   heartbeat_details, checkpoint, current_checkpoint,
                   heartbeat_task, lg, sl, store, stream_input, output, raised,
                   failure, failed_step, yielded, immediate_beats,
                   final_output_calls, executed>>

\* The host schedules the next attempt of the failed activity; the attempt's
\* process state is gone.
HostRetry ==
    /\ pc = "failed"
    /\ attempt < MaxAttempts
    /\ attempt' = attempt + 1
    /\ pc' = "scheduled"
    /\ heartbeat_details' = <<>>
    /\ checkpoint' = None
    /\ current_checkpoint' = None
    /\ heartbeat_task' = "none"
    /\ lg' = LangGraphInit
    /\ sl' = SleepingInit
    /\ stream_input' = "unset"
    /\ raised' = "none"
    /\ failure' = "none"
    /\ failed_step' = 0
    /\ yielded' = <<>>
    /\ immediate_beats' = 0
    /\ background_beats' = 0
    /\ last_beat' = "none"
    /\ final_output_calls' = 0
    /\ UNCHANGED <<adapter_kind, thread_id, num_steps, sleep_seconds,
                   host_details, store, output, executed>>

\* ------------------------------------------------- ResearchAgentWorkflow
MaxInterrupts == 2        \* attempts of one workflow that report interrupted
MaxSignals == 2           \* approval signals sent to one workflow

MaximumAttempts == 5      \* RetryPolicy(maximum_attempts=5)

NonRetryableErrorTypes == {"AuthenticationError", "InvalidRequestError"}
ActivityErrorTypes == {"RateLimitError", "AuthenticationError"}
Feedbacks == {"", "needs more detail"}
Queries == {"marsupials"}

ExpiredText == "Research expired: approval not received within 30 minutes"
NoResult == "none"

\* ApprovalResponse(approved=..., feedback=...)
ApprovalResponse(approved, feedback) == [approved |-> approved, feedback |-> feedback]

\* AgentInput as the workflow builds it for the activity
AgentInput(query, needs_approval, resume_value) ==
    [query |-> query, needs_approval |-> needs_approval,
     resume_value |-> resume_value]

\* AgentOutput as far as the workflow reads it
AgentOutput(final_report, interrupted) ==
    [final_report |-> final_report, interrupted |-> interrupted]

VARIABLES
    wf_pc,                 \* "init" | "running" | "waiting" | "done" | "expired" | "failed"
    wf_input,              \* the input of ResearchAgentWorkflow.run
    approval_response,     \* self.approval_response
    activity_input,        \* input of the activity in flight
    act_attempt,           \* attempt of the activity in flight
    attempt_error,         \* what the latest failed attempt of it raised
    last_result,           \* result of the latest completed activity
    wf_result,             \* value returned by run
    wf_failure,            \* failure that ended run
    timer_fired,           \* the wait's timeout has elapsed at the host
    interrupts,            \* results with interrupted = true so far
    waits,                 \* calls of wait_condition so far
    signals,               \* approval signals sent so far
    signal_while_running,  \* a signal was handled during the activity in flight
    wake_kind,             \* how the latest wait ended: "none" | "signal" | "stored" | "stale"
    wake_signal,           \* payload of the signal that ended the latest wait
    tie_seen,              \* a signal was delivered together with the timeout
    timed_out,             \* wait_condition raised TimeoutError
    delivered              \* payloads of the signals handled by run, in order

wfvars == <<wf_pc, wf_input, approval_response, activity_input, act_attempt,
            attempt_error,
            last_result, wf_result, wf_failure, timer_fired, interrupts, waits,
            signals, signal_while_running, wake_kind, wake_signal, tie_seen,
            timed_out, delivered>>

\* ResearchAgentWorkflow.__init__, before run starts
WorkflowInit ==
    /\ wf_pc = "init"
    /\ wf_input \in [query : Queries, needs_approval : BOOLEAN]
    /\ approval_response = None
    /\ activity_input = None
    /\ act_attempt = 0
    /\ attempt_error = "none"
    /\ last_result = None
    /\ wf_result = NoResult
    /\ wf_failure = "none"
    /\ timer_fired = FALSE
    /\ interrupts = 0
    /\ waits = 0
    /\ signals = 0
    /\ signal_while_running = FALSE
    /\ wake_kind = "none"
    /\ wake_signal = None
    /\ tie_seen = FALSE
    /\ timed_out = FALSE
    /\ delivered = <<>>

\* the resume_value expression of run
ResumeValue(resp) ==
    IF resp # None THEN [approved |-> resp.approved, feedback |-> resp.feedback]
    ELSE None

\* activity input that carries the decision without its feedback
ActivityInputNoFeedback(resp) ==
    AgentInput(wf_input.query, wf_input.needs_approval,
               IF resp # None THEN [approved |-> resp.approved, feedback |-> ""]
               ELSE None)

\* `activity_input = AgentInput(...)` at the top of the loop
ActivityInput(resp) ==
    AgentInput(wf_input.query, wf_input.needs_approval, ResumeValue(resp))

\* Top of the loop up to execute_activity, with self.approval_response = resp
Dispatch(resp) ==
    /\ activity_input' = ActivityInput(resp)
    /\ act_attempt' = 1
    /\ attempt_error' = "none"
    /\ signal_while_running' = FALSE
    /\ wf_pc' = "running"

\* run starts: first pass of the loop
WorkflowStart ==
    /\ wf_pc = "init"
    /\ Dispatch(approval_response)
    /\ UNCHANGED <<wf_input, approval_response, last_result, wf_result,
                   wf_failure, timer_fired, interrupts, waits, signals,
                   wake_kind, wake_signal, tie_seen, timed_out>>
    /\ UNCHANGED delivered

\* The activity returns an output with interrupted = false: run returns its report.
ActivityReturnsFinal ==
    /\ wf_pc = "running"
    /\ last_result' = AgentOutput(FinalReportText, FALSE)
    /\ wf_result' = FinalReportText
    /\ wf_pc' = "done"
    /\ activity_input' = None
    /\ wake_signal' = None
    /\ UNCHANGED <<wf_input, approval_response, act_attempt, attempt_error, wf_failure,
                   timer_fired, interrupts, waits, signals, signal_while_running,
                   wake_kind, tie_seen, timed_out>>
    /\ UNCHANGED delivered

\* the loop without the interrupted check: whatever the activity returned is the result
ActivityReturnsInterruptedAsFinal ==
    /\ wf_pc = "running"
    /\ interrupts < MaxInterrupts
    /\ last_result' = AgentOutput(NoReport, TRUE)
    /\ interrupts' = interrupts + 1
    /\ wf_result' = NoReport
    /\ wf_pc' = "done"
    /\ activity_input' = None
    /\ wake_signal' = None
    /\ UNCHANGED <<wf_input, approval_response, act_attempt, attempt_error, wf_failure,
                   timer_fired, waits, signals, signal_while_running, wake_kind,
                   tie_seen, timed_out>>
    /\ UNCHANGED delivered

\* the loop clearing the stored response before it waits
ActivityReturnsInterruptedClearsSignal ==
    /\ wf_pc = "running"
    /\ interrupts < MaxInterrupts
    /\ last_result' = AgentOutput(NoReport, TRUE)
    /\ interrupts' = interrupts + 1
    /\ waits' = waits + 1
    /\ wake_signal' = None
    /\ approval_response' = None
    /\ wf_pc' = "waiting"
    /\ activity_input' = None
    /\ timer_fired' = FALSE
    /\ UNCHANGED <<wf_input, act_attempt, attempt_error, wf_failure, wf_result, signals,
                   signal_while_running, wake_kind, tie_seen, timed_out>>
    /\ UNCHANGED delivered

\* The activity returns an output with interrupted = true: run calls
\* wait_condition, which is satisfied at once when a response is stored (the
\* next pass of the loop then dispatches in the same workflow task).
ActivityReturnsInterrupted ==
    /\ wf_pc = "running"
    /\ interrupts < MaxInterrupts
    /\ last_result' = AgentOutput(NoReport, TRUE)
    /\ interrupts' = interrupts + 1
    /\ waits' = waits + 1
    /\ wake_signal' = None
    /\ IF approval_response # None
       THEN /\ Dispatch(approval_response)
            /\ wake_kind' = IF signal_while_running THEN "stored" ELSE "stale"
            /\ UNCHANGED timer_fired
       ELSE /\ wf_pc' = "waiting"
            /\ activity_input' = None
            /\ timer_fired' = FALSE
            /\ UNCHANGED <<act_attempt, attempt_error, signal_while_running, wake_kind>>
    /\ UNCHANGED <<wf_input, approval_response, wf_failure, wf_result, signals,
                   tie_seen, timed_out>>
    /\ UNCHANGED delivered

\* the retry policy without its list of non-retryable types
ActivityFailsRetriesAll ==
    /\ wf_pc = "running"
    /\ \E err \in ActivityErrorTypes :
          /\ attempt_error' = err
          /\ IF act_attempt < MaximumAttempts
             THEN /\ act_attempt' = act_attempt + 1
                  /\ UNCHANGED <<wf_pc, wf_failure>>
             ELSE /\ wf_pc' = "failed"
                  /\ wf_failure' = err
                  /\ UNCHANGED act_attempt
    /\ UNCHANGED <<wf_input, approval_response, activity_input, last_result,
                   wf_result, timer_fired, interrupts, waits, signals,
                   signal_while_running, wake_kind, wake_signal, tie_seen,
                   timed_out>>
    /\ UNCHANGED delivered

\* An attempt of the activity fails: the host retries it under the retry
\* policy, or execute_activity raises and the failure ends run.
ActivityFails ==
    /\ wf_pc = "running"
    /\ \E err \in ActivityErrorTypes :
          /\ attempt_error' = err
          /\ IF err \notin NonRetryableErrorTypes /\ act_attempt < MaximumAttempts
             THEN /\ act_attempt' = act_attempt + 1
                  /\ UNCHANGED <<wf_pc, wf_failure>>
             ELSE /\ wf_pc' = "failed"
                  /\ wf_failure' = err
                  /\ UNCHANGED act_attempt
    /\ UNCHANGED <<wf_input, approval_response, activity_input, last_result,
                   wf_result, timer_fired, interrupts, waits, signals,
                   signal_while_running, wake_kind, wake_signal, tie_seen,
                   timed_out>>
    /\ UNCHANGED delivered

\* approve_research sent before run has started (with the start, or before the
\* first workflow task): the handler runs first and stores the response.
SignalBeforeStart ==
    /\ wf_pc = "init"
    /\ signals < MaxSignals
    /\ \E approved \in BOOLEAN, feedback \in Feedbacks :
          /\ approval_response' = ApprovalResponse(approved, feedback)
          /\ delivered' = Append(delivered, ApprovalResponse(approved, feedback))
    /\ signals' = signals + 1
    /\ UNCHANGED <<wf_pc, wf_input, activity_input, act_attempt, attempt_error,
                   last_result, wf_result, wf_failure, timer_fired, interrupts,
                   waits, signal_while_running, wake_kind, wake_signal, tie_seen,
                   timed_out>>

\* a handler that keeps the first response it was given
SignalWhileRunningKeepsFirst ==
    /\ wf_pc = "running"
    /\ signals < MaxSignals
    /\ \E approved \in BOOLEAN, feedback \in Feedbacks :
          /\ approval_response' = IF approval_response = None
                                  THEN ApprovalResponse(approved, feedback)
                                  ELSE approval_response
          /\ delivered' = Append(delivered, ApprovalResponse(approved, feedback))
    /\ signal_while_running' = TRUE
    /\ signals' = signals + 1
    /\ UNCHANGED <<wf_pc, wf_input, activity_input, act_attempt, attempt_error, last_result,
                   wf_result, wf_failure, timer_fired, interrupts, waits,
                   wake_kind, wake_signal, tie_seen, timed_out>>

\* approve_research handled while the activity is in flight
SignalWhileRunning ==
    /\ wf_pc = "running"
    /\ signals < MaxSignals
    /\ \E approved \in BOOLEAN, feedback \in Feedbacks :
          /\ approval_response' = ApprovalResponse(approved, feedback)
          /\ delivered' = Append(delivered, ApprovalResponse(approved, feedback))
    /\ signal_while_running' = TRUE
    /\ signals' = signals + 1
    /\ UNCHANGED <<wf_pc, wf_input, activity_input, act_attempt, attempt_error, last_result,
                   wf_result, wf_failure, timer_fired, interrupts, waits,
                   wake_kind, wake_signal, tie_seen, timed_out>>

\* approve_research handled while run waits and the timeout has not elapsed:
\* the condition holds, run goes round the loop and dispatches.
SignalWhileWaiting ==
    /\ wf_pc = "waiting"
    /\ ~timer_fired
    /\ signals < MaxSignals
    /\ \E approved \in BOOLEAN, feedback \in Feedbacks :
          /\ approval_response' = ApprovalResponse(approved, feedback)
          /\ delivered' = Append(delivered, ApprovalResponse(approved, feedback))
          /\ wake_signal' = ApprovalResponse(approved, feedback)
          /\ Dispatch(ApprovalResponse(approved, feedback))
    /\ wake_kind' = "signal"
    /\ signals' = signals + 1
    /\ UNCHANGED <<wf_input, last_result, wf_result, wf_failure, timer_fired,
                   interrupts, waits, tie_seen, timed_out>>

\* The signal and the elapsed timeout reach run in the same workflow task: the
\* code leaves the order to wait_condition, either may be seen first.
SignalAtTimeout ==
    /\ wf_pc = "waiting"
    /\ timer_fired
    /\ signals < MaxSignals
    /\ signals' = signals + 1
    /\ tie_seen' = TRUE
    /\ \E approved \in BOOLEAN, feedback \in Feedbacks :
          /\ approval_response' = ApprovalResponse(approved, feedback)
          /\ delivered' = Append(delivered, ApprovalResponse(approved, feedback))
          /\ \/ /\ Dispatch(ApprovalResponse(approved, feedback))
                /\ wake_signal' = ApprovalResponse(approved, feedback)
                /\ wake_kind' = "signal"
                /\ UNCHANGED <<wf_result, timed_out>>
             \/ /\ wf_pc' = "expired"
                /\ wf_result' = ExpiredText
                /\ timed_out' = TRUE
                /\ UNCHANGED <<activity_input, act_attempt, attempt_error,
                               signal_while_running, wake_signal, wake_kind>>
    /\ UNCHANGED <<wf_input, last_result, wf_failure, timer_fired, interrupts,
                   waits>>

\* 30 minutes pass at the host while run waits
TimerElapses ==
    /\ wf_pc = "waiting"
    /\ ~timer_fired
    /\ timer_fired' = TRUE
    /\ UNCHANGED <<wf_pc, wf_input, approval_response, activity_input,
                   act_attempt, attempt_error, last_result, wf_result, wf_failure, interrupts,
                   waits, signals, signal_while_running, wake_kind, wake_signal,
                   tie_seen, timed_out>>
    /\ UNCHANGED delivered

\* the timeout escaping run as an exception
WaitTimesOutRaises ==
    /\ wf_pc = "waiting"
    /\ timer_fired
    /\ timed_out' = TRUE
    /\ wf_failure' = "TimeoutError"
    /\ wf_pc' = "failed"
    /\ UNCHANGED <<wf_input, approval_response, activity_input, act_attempt, attempt_error,
                   last_result, wf_result, timer_fired, interrupts, waits, signals,
                   signal_while_running, wake_kind, wake_signal, tie_seen>>
    /\ UNCHANGED delivered

\* the timeout swallowed: run waits again
WaitTimesOutIgnored ==
    /\ wf_pc = "waiting"
    /\ timer_fired
    /\ timer_fired' = FALSE
    /\ UNCHANGED <<wf_pc, wf_input, approval_response, activity_input,
                   act_attempt, attempt_error, last_result, wf_result, wf_failure, interrupts,
                   waits, signals, signal_while_running, wake_kind, wake_signal,
                   tie_seen, timed_out>>
    /\ UNCHANGED delivered

\* wait_condition raises TimeoutError: run returns the expiry text
WaitTimesOut ==
    /\ wf_pc = "waiting"
    /\ timer_fired
    /\ timed_out' = TRUE
    /\ wf_result' = ExpiredText
    /\ wf_pc' = "expired"
    /\ UNCHANGED <<wf_input, approval_response, activity_input, act_attempt, attempt_error,
                   last_result, wf_failure, timer_fired, interrupts, waits, signals,
                   signal_while_running, wake_kind, wake_signal, tie_seen>>
    /\ UNCHANGED delivered

WorkflowClosed == wf_pc \in {"done", "expired", "failed"}

\* A signal sent to the closed workflow: the host has no run to deliver it to.
SignalAfterClose ==
    /\ WorkflowClosed
    /\ signals < MaxSignals
    /\ signals' = signals + 1
    /\ UNCHANGED <<wf_pc, wf_input, approval_response, activity_input,
                   act_attempt, attempt_error, last_result, wf_result, wf_failure, timer_fired,
                   interrupts, waits, signal_while_running, wake_kind,
                   wake_signal, tie_seen, timed_out, delivered>>

\* what the host does on its own, given time
WorkflowProgress ==
    \/ WorkflowStart
    \/ ActivityReturnsFinal
    \/ ActivityReturnsInterrupted
    \/ ActivityFails
    \/ TimerElapses
    \/ WaitTimesOut

\* ------------------------------------------------- pack_order_items
MaxItems == 2             \* items of one order

MaximumPackAttempts == 10 \* RetryPolicy(maximum_attempts=10)

NoSlip == 0               \* packing_slip_id: str | None = None
NotStartedIdx == 0 - 1    \* last_processed_idx=-1
SkuNames == <<"sku-a", "sku-b", "sku-c", "sku-d">>
Sku(idx) == SkuNames[idx + 1]

\* PackingCheckpoint(last_processed_idx=..., last_item_sku=..., packing_slip_id=...)
PackingCheckpoint(idx, sku, slip) ==
    [last_processed_idx |-> idx, last_item_sku |-> sku, packing_slip_id |-> slip]

VARIABLES
    pk_slip_field,      \* the PackingCheckpoint class in use has the field packing_slip_id
    total_items,        \* len(items)
    pk_attempt,         \* activity.info().attempt
    pk_pc,              \* "scheduled" | "acquire" | "persist" | "loop" | "attempt_failed" | "returned" | "failed"
    pk_host_details,    \* heartbeat details the host holds for the activity
    pk_checkpoint,      \* checkpoint
    start_idx,          \* start_idx
    packing_slip_id,    \* packing_slip_id
    pk_idx,             \* next idx of the for loop
    pk_heartbeat_task,  \* "none" | "running" | "cancelled" | "killed"
    pk_beats,           \* background heartbeats of this attempt
    pk_failure,         \* what ended the latest failed attempt
    acquisitions,       \* calls of _generate_packing_slip_id so far
    packed,             \* packed[i]: times item i was packed
    pk_result           \* slip id named in the returned text

pkvars == <<pk_slip_field, total_items, pk_attempt, pk_pc, pk_host_details,
            pk_checkpoint, start_idx, packing_slip_id, pk_idx, pk_heartbeat_task,
            pk_beats, pk_failure, acquisitions, packed, pk_result>>

\* The activity is scheduled for its first attempt.  shared.py declares
\* PackingCheckpoint with two fields; pack_order_items is written against the
\* class with packing_slip_id: both classes are taken in.
PackingInit ==
    /\ pk_slip_field \in BOOLEAN
    /\ total_items \in 1..MaxItems
    /\ pk_attempt = 1
    /\ pk_pc = "scheduled"
    /\ pk_host_details = <<>>
    /\ pk_checkpoint = None
    /\ start_idx = 0
    /\ packing_slip_id = NoSlip
    /\ pk_idx = 0
    /\ pk_heartbeat_task = "none"
    /\ pk_beats = 0
    /\ pk_failure = "none"
    /\ acquisitions = 0
    /\ packed = [i \in 0..(total_items - 1) |-> 0]
    /\ pk_result = NoSlip

\* order_fulfillment _restore_checkpoint
PackRestoreCheckpoint(details) ==
    IF details = <<>> THEN None ELSE details[1]

PackStartFromZero ==
    /\ pk_pc = "scheduled"
    /\ LET cp == PackRestoreCheckpoint(pk_host_details)
           slip == IF cp # None THEN cp.packing_slip_id ELSE NoSlip
       IN /\ pk_checkpoint' = cp
          /\ start_idx' = 0
          /\ pk_idx' = 0
          /\ packing_slip_id' = slip
          /\ pk_pc' = IF slip = NoSlip THEN "acquire" ELSE "loop"
          /\ pk_heartbeat_task' = IF slip = NoSlip THEN "none" ELSE "running"
    /\ pk_beats' = 0
    /\ UNCHANGED <<pk_slip_field, total_items, pk_attempt, pk_host_details,
                   pk_failure, acquisitions, packed, pk_result>>

\* The attempt starts: restore, then either acquire or go to the loop.
PackStart ==
    /\ pk_pc = "scheduled"
    /\ LET cp == PackRestoreCheckpoint(pk_host_details)
           slip == IF cp # None THEN cp.packing_slip_id ELSE NoSlip
       IN /\ pk_checkpoint' = cp
          /\ start_idx' = IF cp # None THEN cp.last_processed_idx + 1 ELSE 0
          /\ pk_idx' = IF cp # None THEN cp.last_processed_idx + 1 ELSE 0
          /\ packing_slip_id' = slip
          /\ pk_pc' = IF slip = NoSlip THEN "acquire" ELSE "loop"
          /\ pk_heartbeat_task' = IF slip = NoSlip THEN "none" ELSE "running"
    /\ pk_beats' = 0
    /\ UNCHANGED <<pk_slip_field, total_items, pk_attempt, pk_host_details,
                   pk_failure, acquisitions, packed, pk_result>>

\* packing_slip_id = _generate_packing_slip_id(): the external call
AcquireSlip ==
    /\ pk_pc = "acquire"
    /\ acquisitions' = acquisitions + 1
    /\ packing_slip_id' = acquisitions + 1
    /\ pk_pc' = "persist"
    /\ UNCHANGED <<pk_slip_field, total_items, pk_attempt, pk_host_details,
                   pk_checkpoint, start_idx, pk_idx, pk_heartbeat_task, pk_beats,
                   pk_failure, packed, pk_result>>

\* The checkpoint with the new slip id is built and heartbeated, and the
\* background task is made; the class without the field raises TypeError.
PersistSlip ==
    /\ pk_pc = "persist"
    /\ IF pk_slip_field
       THEN /\ pk_checkpoint' = PackingCheckpoint(NotStartedIdx, "not_started",
                                                  packing_slip_id)
            /\ pk_host_details' = <<PackingCheckpoint(NotStartedIdx, "not_started",
                                                      packing_slip_id)>>
            /\ pk_heartbeat_task' = "running"
            /\ pk_pc' = "loop"
            /\ UNCHANGED pk_failure
       ELSE /\ pk_failure' = "TypeError"
            /\ pk_pc' = "attempt_failed"
            /\ UNCHANGED <<pk_checkpoint, pk_host_details, pk_heartbeat_task>>
    /\ UNCHANGED <<pk_slip_field, total_items, pk_attempt, start_idx,
                   packing_slip_id, pk_idx, pk_beats, acquisitions, packed,
                   pk_result>>

\* One pass of the for loop: pack, update the checkpoint, heartbeat.
PackItem ==
    /\ pk_pc = "loop"
    /\ pk_idx < total_items
    /\ packed' = [packed EXCEPT ![pk_idx] = @ + 1]
    /\ pk_checkpoint' = PackingCheckpoint(pk_idx, Sku(pk_idx), packing_slip_id)
    /\ pk_host_details' = <<PackingCheckpoint(pk_idx, Sku(pk_idx), packing_slip_id)>>
    /\ pk_idx' = pk_idx + 1
    /\ UNCHANGED <<pk_slip_field, total_items, pk_attempt, pk_pc, start_idx,
                   packing_slip_id, pk_heartbeat_task, pk_beats, pk_failure,
                   acquisitions, pk_result>>

\* The activity worker is killed after the packing work of an item ended and
\* before the heartbeat of that item reached the host.
PackItemUnrecorded ==
    /\ pk_pc = "loop"
    /\ pk_idx < total_items
    /\ packed' = [packed EXCEPT ![pk_idx] = @ + 1]
    /\ pk_heartbeat_task' = "killed"
    /\ pk_failure' = "HeartbeatTimeout"
    /\ pk_pc' = "attempt_failed"
    /\ UNCHANGED <<pk_slip_field, total_items, pk_attempt, pk_host_details,
                   pk_checkpoint, start_idx, packing_slip_id, pk_idx, pk_beats,
                   acquisitions, pk_result>>

\* heartbeat_loop of pack_order_items wakes up and sends
PackBackgroundHeartbeat ==
    /\ pk_heartbeat_task = "running"
    /\ pk_beats < MaxBackgroundBeats
    /\ pk_checkpoint # None
    /\ pk_host_details' = <<pk_checkpoint>>
    /\ pk_beats' = pk_beats + 1
    /\ UNCHANGED <<pk_slip_field, total_items, pk_attempt, pk_pc, pk_checkpoint,
                   start_idx, packing_slip_id, pk_idx, pk_heartbeat_task,
                   pk_failure, acquisitions, packed, pk_result>>

\* The loop is over: finally cancels the task, the text with the slip id returns.
PackReturn ==
    /\ pk_pc = "loop"
    /\ pk_idx >= total_items
    /\ pk_heartbeat_task' = "cancelled"
    /\ pk_result' = packing_slip_id
    /\ pk_pc' = "returned"
    /\ UNCHANGED <<pk_slip_field, total_items, pk_attempt, pk_host_details,
                   pk_checkpoint, start_idx, packing_slip_id, pk_idx, pk_beats,
                   pk_failure, acquisitions, packed>>

\* The attempt is cancelled at the sleep of the loop: finally runs.
PackCancelled ==
    /\ pk_pc = "loop"
    /\ pk_idx < total_items
    /\ pk_heartbeat_task' = "cancelled"
    /\ pk_failure' = "CancelledError"
    /\ pk_pc' = "attempt_failed"
    /\ UNCHANGED <<pk_slip_field, total_items, pk_attempt, pk_host_details,
                   pk_checkpoint, start_idx, packing_slip_id, pk_idx, pk_beats,
                   acquisitions, packed, pk_result>>

\* The activity worker is killed while the attempt runs.
PackWorkerCrash ==
    /\ pk_pc \in {"acquire", "persist", "loop"}
    /\ pk_heartbeat_task' = IF pk_heartbeat_task = "running" THEN "killed"
                            ELSE pk_heartbeat_task
    /\ pk_failure' = "HeartbeatTimeout"
    /\ pk_pc' = "attempt_failed"
    /\ UNCHANGED <<pk_slip_field, total_items, pk_attempt, pk_host_details,
                   pk_checkpoint, start_idx, packing_slip_id, pk_idx, pk_beats,
                   acquisitions, packed, pk_result>>

\* The host schedules the next attempt, or gives up at maximum_attempts.
PackRetry ==
    /\ pk_pc = "attempt_failed"
    /\ IF pk_attempt < MaximumPackAttempts
       THEN /\ pk_attempt' = pk_attempt + 1
            /\ pk_pc' = "scheduled"
       ELSE /\ pk_pc' = "failed"
            /\ UNCHANGED pk_attempt
    /\ UNCHANGED <<pk_slip_field, total_items, pk_host_details, pk_checkpoint,
                   start_idx, packing_slip_id, pk_idx, pk_heartbeat_task, pk_beats,
                   pk_failure, acquisitions, packed, pk_result>>

\* ------------------------------------------------- run_langgraph_agent
ResumePayloads == {[approved |-> TRUE, feedback |-> ""]}

VARIABLES
    ag_num_steps,         \* nodes of the graph
    ag_resume_value,      \* input.resume_value
    ag_attempt,           \* info.attempt
    ag_pc,                \* "scheduled" | "setup" | "stream" | "step" | "yield" | "exhausted" | "returned" | "failed"
    ag_host_details,      \* last heartbeat payload the host received
    ag_heartbeat_details, \* info.heartbeat_details of the running attempt
    ag_checkpoint,        \* checkpoint
    ag_heartbeat_task,    \* "none" | "running" | "cancelled" | "killed"
    ag_store,             \* the external state store's row for the thread
    ag_stream_input,      \* "unset" | "fresh" | "Command"
    ag_output,            \* the AgentOutput returned
    ag_failure,           \* failure the host observed for the attempt
    ag_beats,             \* background heartbeats of this attempt
    ag_executed           \* ag_executed[i]: completed executions of node i in the thread

agvars == <<ag_num_steps, ag_resume_value, ag_attempt, ag_pc, ag_host_details,
            ag_heartbeat_details, ag_checkpoint, ag_heartbeat_task, ag_store,
            ag_stream_input, ag_output, ag_failure, ag_beats, ag_executed>>

AgentThreadId == "wf-1"

\* state.next of aget_state for the activity's graph
AgentStoreNext(s) ==
    IF s.started /\ s.pos < ag_num_steps THEN {NodeName(s.pos + 1)} ELSE {}

\* The activity is scheduled for its first attempt.  An input without
\* resume_value meets a thread the store has not seen; an input with one
\* meets a thread that stopped with nodes pending.
AgentInit ==
    /\ ag_num_steps \in 1..MaxSteps
    /\ ag_resume_value \in {None} \cup ResumePayloads
    /\ ag_attempt = 1
    /\ ag_pc = "scheduled"
    /\ ag_host_details = <<>>
    /\ ag_heartbeat_details = <<>>
    /\ ag_checkpoint = None
    /\ ag_heartbeat_task = "none"
    /\ IF ag_resume_value = None
       THEN ag_store = EmptyStore
       ELSE \E p \in 0..(ag_num_steps - 1) :
               ag_store = [started |-> TRUE, pos |-> p, cid |-> p + 1]
    /\ ag_stream_input = "unset"
    /\ ag_output = None
    /\ ag_failure = "none"
    /\ ag_beats = 0
    /\ ag_executed = [i \in 1..ag_num_steps |-> 0]

\* The attempt starts: restore or fresh checkpoint, initial heartbeat.
AgentAttemptStart ==
    /\ ag_pc = "scheduled"
    /\ ag_heartbeat_details' = ag_host_details
    /\ LET restored == RestoreCheckpoint(ag_host_details)
           ckpt == IF restored # None THEN restored
                   ELSE AgentCheckpoint(AgentThreadId)
       IN /\ ag_checkpoint' = ckpt
          /\ ag_host_details' = <<Encode(ckpt)>>
    /\ ag_pc' = "setup"
    /\ UNCHANGED <<ag_num_steps, ag_resume_value, ag_attempt, ag_heartbeat_task,
                   ag_store, ag_stream_input, ag_output, ag_failure, ag_beats,
                   ag_executed>>

\* get_checkpointer returns, the graph is compiled, the background task is made.
AgentSetup ==
    /\ ag_pc = "setup"
    /\ ag_heartbeat_task' = "running"
    /\ ag_pc' = "stream"
    /\ UNCHANGED <<ag_num_steps, ag_resume_value, ag_attempt, ag_host_details,
                   ag_heartbeat_details, ag_checkpoint, ag_store, ag_stream_input,
                   ag_output, ag_failure, ag_beats, ag_executed>>

\* stream_input is chosen from input.resume_value alone and astream starts: a
\* Command continues the thread from its pending nodes, the input dict starts
\* a new run of the thread at the entry node.
AgentStreamBegin ==
    /\ ag_pc = "stream"
    /\ IF ag_resume_value # None
       THEN /\ ag_stream_input' = "Command"
            /\ ag_store' = ag_store
       ELSE /\ ag_stream_input' = "fresh"
            /\ ag_store' = [started |-> TRUE, pos |-> 0, cid |-> ag_store.cid + 1]
    /\ ag_pc' = IF ag_store'.pos < ag_num_steps THEN "step" ELSE "exhausted"
    /\ UNCHANGED <<ag_num_steps, ag_resume_value, ag_attempt, ag_host_details,
                   ag_heartbeat_details, ag_checkpoint, ag_heartbeat_task,
                   ag_output, ag_failure, ag_beats, ag_executed>>

\* A superstep completes: the engine saves it and emits the event, the loop
\* body counts it and names the node, then waits for aget_state.
AgentExecStep ==
    /\ ag_pc = "step"
    /\ ag_store' = [ag_store EXCEPT !.pos = @ + 1, !.cid = @ + 1]
    /\ ag_executed' = [ag_executed EXCEPT ![ag_store.pos + 1] = @ + 1]
    /\ ag_checkpoint' = [ag_checkpoint EXCEPT
                            !.superstep_count = @ + 1,
                            !.current_node = NodeName(ag_store.pos + 1)]
    /\ ag_pc' = "yield"
    /\ UNCHANGED <<ag_num_steps, ag_resume_value, ag_attempt, ag_host_details,
                   ag_heartbeat_details, ag_heartbeat_task, ag_stream_input,
                   ag_output, ag_failure, ag_beats>>

\* The node that is due interrupts: the stream ends with no event for it and
\* the node stays pending in the store.
AgentInterrupt ==
    /\ ag_pc = "step"
    /\ ag_pc' = "exhausted"
    /\ UNCHANGED <<ag_num_steps, ag_resume_value, ag_attempt, ag_host_details,
                   ag_heartbeat_details, ag_checkpoint, ag_heartbeat_task,
                   ag_store, ag_stream_input, ag_output, ag_failure, ag_beats,
                   ag_executed>>

\* aget_state returns: the checkpoint_id is taken over and heartbeated.
AgentAfterStep ==
    /\ ag_pc = "yield"
    /\ ag_checkpoint' = [ag_checkpoint EXCEPT !.checkpoint_id = ag_store.cid]
    /\ ag_host_details' = <<Encode([ag_checkpoint EXCEPT
                                       !.checkpoint_id = ag_store.cid])>>
    /\ ag_pc' = IF ag_store.pos < ag_num_steps THEN "step" ELSE "exhausted"
    /\ UNCHANGED <<ag_num_steps, ag_resume_value, ag_attempt,
                   ag_heartbeat_details, ag_heartbeat_task, ag_store,
                   ag_stream_input, ag_output, ag_failure, ag_beats, ag_executed>>

\* an activity that never reports the interruption
AgentFinishNeverInterrupted ==
    /\ ag_pc = "exhausted"
    /\ ag_output' =
          [final_report |-> IF ag_store.started /\ ag_store.pos = ag_num_steps
                            THEN FinalReportText ELSE NoReport,
           thread_id |-> AgentThreadId,
           superstep_count |-> ag_checkpoint.superstep_count,
           interrupted |-> FALSE]
    /\ ag_heartbeat_task' = "cancelled"
    /\ ag_pc' = "returned"
    /\ UNCHANGED <<ag_num_steps, ag_resume_value, ag_attempt, ag_host_details,
                   ag_heartbeat_details, ag_checkpoint, ag_store, ag_stream_input,
                   ag_failure, ag_beats, ag_executed>>

\* The stream is over: final state read, AgentOutput returned, finally.
AgentFinish ==
    /\ ag_pc = "exhausted"
    /\ ag_output' =
          [final_report |-> IF ag_store.started /\ ag_store.pos = ag_num_steps
                            THEN FinalReportText ELSE NoReport,
           thread_id |-> AgentThreadId,
           superstep_count |-> ag_checkpoint.superstep_count,
           interrupted |-> AgentStoreNext(ag_store) # {}]
    /\ ag_heartbeat_task' = "cancelled"
    /\ ag_pc' = "returned"
    /\ UNCHANGED <<ag_num_steps, ag_resume_value, ag_attempt, ag_host_details,
                   ag_heartbeat_details, ag_checkpoint, ag_store, ag_stream_input,
                   ag_failure, ag_beats, ag_executed>>

\* A node raises, or the host cancels the attempt at an await: finally runs.
AgentAttemptFails ==
    /\ ag_pc \in {"setup", "stream", "step", "yield", "exhausted"}
    /\ \E err \in ErrorTypes \cup {"CancelledError"} :
          /\ err \in ErrorTypes => ag_pc = "step"
          /\ ag_failure' = err
    /\ ag_heartbeat_task' = IF ag_heartbeat_task = "running" THEN "cancelled"
                            ELSE ag_heartbeat_task
    /\ ag_pc' = "failed"
    /\ UNCHANGED <<ag_num_steps, ag_resume_value, ag_attempt, ag_host_details,
                   ag_heartbeat_details, ag_checkpoint, ag_store, ag_stream_input,
                   ag_output, ag_beats, ag_executed>>

\* The activity worker is killed while the attempt runs.
AgentWorkerCrash ==
    /\ ag_pc \in {"setup", "stream", "step", "yield", "exhausted"}
    /\ ag_failure' = "HeartbeatTimeout"
    /\ ag_heartbeat_task' = IF ag_heartbeat_task = "running" THEN "killed"
                            ELSE ag_heartbeat_task
    /\ ag_pc' = "failed"
    /\ UNCHANGED <<ag_num_steps, ag_resume_value, ag_attempt, ag_host_details,
                   ag_heartbeat_details, ag_checkpoint, ag_store, ag_stream_input,
                   ag_output, ag_beats, ag_executed>>

\* heartbeat_loop of the activity wakes up and sends the checkpoint object
AgentBackgroundHeartbeat ==
    /\ ag_heartbeat_task = "running"
    /\ ag_beats < MaxBackgroundBeats
    /\ ag_host_details' = <<Encode(ag_checkpoint)>>
    /\ ag_beats' = ag_beats + 1
    /\ UNCHANGED <<ag_num_steps, ag_resume_value, ag_attempt, ag_pc,
                   ag_heartbeat_details, ag_checkpoint, ag_heartbeat_task,
                   ag_store, ag_stream_input, ag_output, ag_failure, ag_executed>>

\* The host schedules the next attempt with the same input.
AgentRetry ==
    /\ ag_pc = "failed"
    /\ ag_attempt < MaxAttempts
    /\ ag_attempt' = ag_attempt + 1
    /\ ag_pc' = "scheduled"
    /\ ag_heartbeat_details' = <<>>
    /\ ag_checkpoint' = None
    /\ ag_heartbeat_task' = "none"
    /\ ag_stream_input' = "unset"
    /\ ag_failure' = "none"
    /\ ag_beats' = 0
    /\ UNCHANGED <<ag_num_steps, ag_resume_value, ag_host_details, ag_store,
                   ag_output, ag_executed>>

\* ------------------------------------------------------- OrderWorkflow
LastDownAttempt == 4      \* if attempt <= 4: the inventory service is down

Malformed == [malformed |-> TRUE]
CardMonths == {6, 7}
CardYears == {25, 26, 27}
NowMonths == {6, 7}
NowYears == {2026}
Cards == [month : CardMonths, year : CardYears] \cup {Malformed}

OrderExpiredText == "Order expired"
OrderFulfilledText == "Order fulfilled"

VARIABLES
    ow_card,            \* order.credit_card_expiry
    ow_now,             \* datetime.datetime.now() at process_payment
    ow_items,           \* len(order.items_to_pack)
    ow_inventory_down,  \* inventory_down
    ow_pc,              \* "init" | "payment" | "inventory" | "packing" | "waiting" | "delivery" | "fulfilled" | "expired" | "failed"
    ow_attempt,         \* attempt of the activity in progress
    ow_approved,        \* self.approved
    ow_timer_fired,     \* the 30 seconds of wait_condition have passed at the host
    ow_signals,         \* approve_order signals delivered
    ow_approved_at,     \* where run was when approved became True
    ow_trace,           \* activities dispatched, in order
    ow_attempts,        \* ow_attempts[a]: attempts of activity a started
    ow_result,          \* value run returned
    ow_failure          \* failure run ended with

owvars == <<ow_card, ow_now, ow_items, ow_inventory_down, ow_pc, ow_attempt,
            ow_approved, ow_timer_fired, ow_signals, ow_approved_at, ow_trace,
            ow_attempts, ow_result, ow_failure>>

allvars == <<vars, wfvars, pkvars, agvars, owvars>>

OrderActivities ==
    {"process_payment", "reserve_inventory", "pack_order_items", "deliver_order"}

\* OrderWorkflow.__init__, before run starts
OrderInit ==
    /\ ow_card \in Cards
    /\ ow_now \in [month : NowMonths, year : NowYears]
    /\ ow_items \in 0..MaxItems
    /\ ow_inventory_down \in BOOLEAN
    /\ ow_pc = "init"
    /\ ow_attempt = 0
    /\ ow_approved = FALSE
    /\ ow_timer_fired = FALSE
    /\ ow_signals = 0
    /\ ow_approved_at = "none"
    /\ ow_trace = <<>>
    /\ ow_attempts = [a \in OrderActivities |-> 0]
    /\ ow_result = NoResult
    /\ ow_failure = "none"

\* process_payment: parse MM/YY, compare with now
ProcessPayment(card, now) ==
    IF card = Malformed THEN "ValueError"
    ELSE LET exp_year == card.year + 2000
         IN IF exp_year < now.year
               \/ (exp_year = now.year /\ card.month < now.month)
            THEN "ApplicationError"
            ELSE "ok"

\* reserve_inventory raises on this attempt
ReserveInventoryRaises(inventory_down, n) ==
    inventory_down /\ n <= LastDownAttempt

\* execute_activity: the first attempt of an activity is started
OrderDispatch(a) ==
    /\ ow_trace' = Append(ow_trace, a)
    /\ ow_attempts' = [ow_attempts EXCEPT ![a] = @ + 1]
    /\ ow_attempt' = 1

\* run reaches wait_condition: a condition that holds already lets it pass
OrderEnterWait ==
    IF ow_approved
    THEN /\ ow_pc' = "delivery"
         /\ OrderDispatch("deliver_order")
    ELSE /\ ow_pc' = "waiting"
         /\ UNCHANGED <<ow_trace, ow_attempts, ow_attempt>>

OrderClosed == ow_pc \in {"fulfilled", "expired", "failed"}

\* approve_order while run is not at wait_condition
ApproveOrderEarly ==
    /\ ow_pc \in {"init", "payment", "inventory", "packing", "delivery"}
    /\ ow_signals < MaxSignals
    /\ ow_signals' = ow_signals + 1
    /\ ow_approved' = TRUE
    /\ ow_approved_at' = IF ow_approved THEN ow_approved_at ELSE ow_pc
    /\ UNCHANGED <<ow_card, ow_now, ow_items, ow_inventory_down, ow_pc,
                   ow_attempt, ow_timer_fired, ow_trace, ow_attempts, ow_result,
                   ow_failure>>

\* run starts: process_payment is dispatched
OrderWorkflowStart ==
    /\ ow_pc = "init"
    /\ ow_pc' = "payment"
    /\ OrderDispatch("process_payment")
    /\ UNCHANGED <<ow_card, ow_now, ow_items, ow_inventory_down, ow_approved,
                   ow_timer_fired, ow_signals, ow_approved_at, ow_result,
                   ow_failure>>

ProcessPaymentEndsRetried ==
    /\ ow_pc = "payment"
    /\ IF ProcessPayment(ow_card, ow_now) = "ok"
       THEN /\ ow_pc' = "inventory"
            /\ OrderDispatch("reserve_inventory")
       ELSE /\ ow_pc' = "payment"
            /\ ow_attempts' = [ow_attempts EXCEPT !["process_payment"] = 2]
            /\ ow_attempt' = 2
            /\ UNCHANGED ow_trace
    /\ UNCHANGED <<ow_card, ow_now, ow_items, ow_inventory_down, ow_approved,
                   ow_timer_fired, ow_signals, ow_approved_at, ow_result,
                   ow_failure>>

\* The attempt of process_payment ends; maximum_attempts=1, and run does not
\* catch the failure.
ProcessPaymentEnds ==
    /\ ow_pc = "payment"
    /\ IF ProcessPayment(ow_card, ow_now) = "ok"
       THEN /\ ow_pc' = "inventory"
            /\ OrderDispatch("reserve_inventory")
            /\ UNCHANGED ow_failure
       ELSE /\ ow_pc' = "failed"
            /\ ow_failure' = ProcessPayment(ow_card, ow_now)
            /\ UNCHANGED <<ow_trace, ow_attempts, ow_attempt>>
    /\ UNCHANGED <<ow_card, ow_now, ow_items, ow_inventory_down, ow_approved,
                   ow_timer_fired, ow_signals, ow_approved_at, ow_result>>

ReserveInventoryFailsNoRetry ==
    /\ ow_pc = "inventory"
    /\ ReserveInventoryRaises(ow_inventory_down, ow_attempt)
    /\ ow_pc' = "failed"
    /\ ow_failure' = "ApplicationError"
    /\ UNCHANGED <<ow_card, ow_now, ow_items, ow_inventory_down, ow_approved,
                   ow_timer_fired, ow_signals, ow_approved_at, ow_trace,
                   ow_result, ow_attempts, ow_attempt>>

\* An attempt of reserve_inventory raises: with inventory_down the policy is
\* RetryPolicy(), so the host starts the next attempt.
ReserveInventoryFails ==
    /\ ow_pc = "inventory"
    /\ ReserveInventoryRaises(ow_inventory_down, ow_attempt)
    /\ ow_attempt' = ow_attempt + 1
    /\ ow_attempts' = [ow_attempts EXCEPT !["reserve_inventory"] = @ + 1]
    /\ UNCHANGED <<ow_card, ow_now, ow_items, ow_inventory_down, ow_pc,
                   ow_approved, ow_timer_fired, ow_signals, ow_approved_at,
                   ow_trace, ow_result, ow_failure>>

\* An attempt of reserve_inventory returns: pack_order_items follows when the
\* order has items to pack, else the wait.
ReserveInventoryReturns ==
    /\ ow_pc = "inventory"
    /\ ~ReserveInventoryRaises(ow_inventory_down, ow_attempt)
    /\ IF ow_items > 0
       THEN /\ ow_pc' = "packing"
            /\ OrderDispatch("pack_order_items")
       ELSE OrderEnterWait
    /\ UNCHANGED <<ow_card, ow_now, ow_items, ow_inventory_down, ow_approved,
                   ow_timer_fired, ow_signals, ow_approved_at, ow_result,
                   ow_failure>>

\* An attempt of pack_order_items fails: retried up to maximum_attempts=10.
PackOrderItemsFails ==
    /\ ow_pc = "packing"
    /\ IF ow_attempt < MaximumPackAttempts
       THEN /\ ow_attempt' = ow_attempt + 1
            /\ ow_attempts' = [ow_attempts EXCEPT !["pack_order_items"] = @ + 1]
            /\ UNCHANGED <<ow_pc, ow_failure>>
       ELSE /\ ow_pc' = "failed"
            /\ ow_failure' = "ActivityError"
            /\ UNCHANGED <<ow_attempt, ow_attempts>>
    /\ UNCHANGED <<ow_card, ow_now, ow_items, ow_inventory_down, ow_approved,
                   ow_timer_fired, ow_signals, ow_approved_at, ow_trace,
                   ow_result>>

\* pack_order_items returns: run reaches the wait.
PackOrderItemsReturns ==
    /\ ow_pc = "packing"
    /\ OrderEnterWait
    /\ UNCHANGED <<ow_card, ow_now, ow_items, ow_inventory_down, ow_approved,
                   ow_timer_fired, ow_signals, ow_approved_at, ow_result,
                   ow_failure>>

\* approve_order while run waits and the timer has not fired
ApproveOrderWhileWaiting ==
    /\ ow_pc = "waiting"
    /\ ~ow_timer_fired
    /\ ow_signals < MaxSignals
    /\ ow_signals' = ow_signals + 1
    /\ ow_approved' = TRUE
    /\ ow_approved_at' = "waiting"
    /\ ow_pc' = "delivery"
    /\ OrderDispatch("deliver_order")
    /\ UNCHANGED <<ow_card, ow_now, ow_items, ow_inventory_down, ow_timer_fired,
                   ow_result, ow_failure>>

\* approve_order and the fired timer reach run in the same workflow task: the
\* code leaves the order to wait_condition.
ApproveOrderAtTimeout ==
    /\ ow_pc = "waiting"
    /\ ow_timer_fired
    /\ ow_signals < MaxSignals
    /\ ow_signals' = ow_signals + 1
    /\ ow_approved' = TRUE
    /\ ow_approved_at' = "timeout"
    /\ \/ /\ ow_pc' = "delivery"
          /\ OrderDispatch("deliver_order")
          /\ UNCHANGED ow_result
       \/ /\ ow_pc' = "expired"
          /\ ow_result' = OrderExpiredText
          /\ UNCHANGED <<ow_trace, ow_attempts, ow_attempt>>
    /\ UNCHANGED <<ow_card, ow_now, ow_items, ow_inventory_down, ow_timer_fired,
                   ow_failure>>

\* 30 seconds pass at the host while run waits
OrderTimerElapses ==
    /\ ow_pc = "waiting"
    /\ ~ow_timer_fired
    /\ ow_timer_fired' = TRUE
    /\ UNCHANGED <<ow_card, ow_now, ow_items, ow_inventory_down, ow_pc,
                   ow_attempt, ow_approved, ow_signals, ow_approved_at, ow_trace,
                   ow_attempts, ow_result, ow_failure>>

OrderWaitTimesOutDelivers ==
    /\ ow_pc = "waiting"
    /\ ow_timer_fired
    /\ ow_pc' = "delivery"
    /\ OrderDispatch("deliver_order")
    /\ UNCHANGED <<ow_card, ow_now, ow_items, ow_inventory_down, ow_approved,
                   ow_timer_fired, ow_signals, ow_approved_at, ow_result,
                   ow_failure>>

\* wait_condition raises TimeoutError: run returns "Order expired"
OrderWaitTimesOut ==
    /\ ow_pc = "waiting"
    /\ ow_timer_fired
    /\ ow_pc' = "expired"
    /\ ow_result' = OrderExpiredText
    /\ UNCHANGED <<ow_card, ow_now, ow_items, ow_inventory_down, ow_attempt,
                   ow_approved, ow_timer_fired, ow_signals, ow_approved_at,
                   ow_trace, ow_attempts, ow_failure>>

\* deliver_order returns: run returns "Order fulfilled"
DeliverOrderReturns ==
    /\ ow_pc = "delivery"
    /\ ow_pc' = "fulfilled"
    /\ ow_result' = OrderFulfilledText
    /\ UNCHANGED <<ow_card, ow_now, ow_items, ow_inventory_down, ow_attempt,
                   ow_approved, ow_timer_fired, ow_signals, ow_approved_at,
                   ow_trace, ow_attempts, ow_failure>>

\* what the host brings about by itself: attempts end, timers fire
OrderProgress ==
    \/ OrderWorkflowStart
    \/ ProcessPaymentEnds
    \/ ReserveInventoryFails
    \/ ReserveInventoryReturns
    \/ PackOrderItemsFails
    \/ PackOrderItemsReturns
    \/ OrderTimerElapses
    \/ OrderWaitTimesOut
    \/ DeliverOrderReturns

\* OrderWorkflow not started, for the specifications that do not run it
OrderIdle ==
    /\ OrderInit
    /\ ow_card = [month |-> 6, year |-> 27]
    /\ ow_now = [month |-> 6, year |-> 2026]
    /\ ow_items = 0
    /\ ow_inventory_down = FALSE

\* run_langgraph_agent not started, for the specifications that do not run it
AgentIdle == AgentInit /\ ag_num_steps = 1 /\ ag_resume_value = None

\* the workflow that is not started, for the specifications that do not run it
WorkflowIdle == WorkflowInit /\ wf_input.needs_approval = FALSE

\* pack_order_items not started, for the specifications that do not run it
PackingIdle == PackingInit /\ pk_slip_field /\ total_items = 1

\* the runner at rest, for the specifications that do not run it
RunnerIdle ==
    /\ Init
    /\ adapter_kind = "langgraph"
    /\ thread_id = "wf-1"
    /\ num_steps = 1
    /\ sleep_seconds = 1

\* ------------------------------------------------------- specifications
\* run_adapter with either adapter
RunnerInit == Init /\ WorkflowIdle /\ PackingIdle /\ AgentIdle /\ OrderIdle

Next ==
    \/ AttemptStart /\ UNCHANGED <<wfvars, pkvars, agvars, owvars>>
    \/ Setup /\ UNCHANGED <<wfvars, pkvars, agvars, owvars>>
    \/ RunBegin /\ UNCHANGED <<wfvars, pkvars, agvars, owvars>>
    \/ LangGraphExecStep /\ UNCHANGED <<wfvars, pkvars, agvars, owvars>>
    \/ LangGraphYieldStep /\ UNCHANGED <<wfvars, pkvars, agvars, owvars>>
    \/ SleepingExecStep /\ UNCHANGED <<wfvars, pkvars, agvars, owvars>>
    \/ Finish /\ UNCHANGED <<wfvars, pkvars, agvars, owvars>>
    \/ AdapterRaises /\ UNCHANGED <<wfvars, pkvars, agvars, owvars>>
    \/ AttemptCancelled /\ UNCHANGED <<wfvars, pkvars, agvars, owvars>>
    \/ WorkerCrash /\ UNCHANGED <<wfvars, pkvars, agvars, owvars>>
    \/ BackgroundHeartbeat /\ UNCHANGED <<wfvars, pkvars, agvars, owvars>>
    \/ HostRetry /\ UNCHANGED <<wfvars, pkvars, agvars, owvars>>

Spec == RunnerInit /\ [][Next]_allvars

\* run_adapter where the event loop keeps waking heartbeat_loop: the steps of
\* both adapters wait in awaits, so the sleeping task gets its turn
SpecBeatFair ==
    /\ RunnerInit
    /\ [][Next]_allvars
    /\ WF_allvars(BackgroundHeartbeat /\ UNCHANGED <<wfvars, pkvars, agvars, owvars>>)

\* what the attempt does by itself when nothing fails
RunnerProgress ==
    \/ AttemptStart
    \/ Setup
    \/ RunBegin
    \/ LangGraphExecStep
    \/ LangGraphYieldStep
    \/ SleepingExecStep
    \/ Finish

\* run_adapter where every step of the adapter ends and the event loop runs
\* both the activity's task and heartbeat_loop
SpecRunFair ==
    /\ RunnerInit
    /\ [][Next]_allvars
    /\ WF_allvars(RunnerProgress /\ UNCHANGED <<wfvars, pkvars, agvars, owvars>>)
    /\ WF_allvars(BackgroundHeartbeat /\ UNCHANGED <<wfvars, pkvars, agvars, owvars>>)

\* ResearchAgentWorkflow with its activity seen from the workflow
WorkflowStartState == RunnerIdle /\ WorkflowInit /\ PackingIdle /\ AgentIdle /\ OrderIdle

WorkflowNext ==
    \/ SignalBeforeStart /\ UNCHANGED <<vars, pkvars, agvars, owvars>>
    \/ WorkflowStart /\ UNCHANGED <<vars, pkvars, agvars, owvars>>
    \/ ActivityReturnsFinal /\ UNCHANGED <<vars, pkvars, agvars, owvars>>
    \/ ActivityReturnsInterrupted /\ UNCHANGED <<vars, pkvars, agvars, owvars>>
    \/ ActivityFails /\ UNCHANGED <<vars, pkvars, agvars, owvars>>
    \/ SignalWhileRunning /\ UNCHANGED <<vars, pkvars, agvars, owvars>>
    \/ SignalWhileWaiting /\ UNCHANGED <<vars, pkvars, agvars, owvars>>
    \/ SignalAtTimeout /\ UNCHANGED <<vars, pkvars, agvars, owvars>>
    \/ TimerElapses /\ UNCHANGED <<vars, pkvars, agvars, owvars>>
    \/ WaitTimesOut /\ UNCHANGED <<vars, pkvars, agvars, owvars>>
    \/ SignalAfterClose /\ UNCHANGED <<vars, pkvars, agvars, owvars>>

SpecWorkflow == WorkflowStartState /\ [][WorkflowNext]_allvars

\* the host lets every attempt end (start_to_close_timeout) and every timer fire
SpecWorkflowFair ==
    /\ WorkflowStartState
    /\ [][WorkflowNext]_allvars
    /\ WF_allvars(WorkflowProgress /\ UNCHANGED <<vars, pkvars, agvars, owvars>>)

\* pack_order_items
PackingStartState == RunnerIdle /\ WorkflowIdle /\ PackingInit /\ AgentIdle /\ OrderIdle

PackingNext ==
    \/ PackStart /\ UNCHANGED <<vars, wfvars, agvars, owvars>>
    \/ AcquireSlip /\ UNCHANGED <<vars, wfvars, agvars, owvars>>
    \/ PersistSlip /\ UNCHANGED <<vars, wfvars, agvars, owvars>>
    \/ PackItem /\ UNCHANGED <<vars, wfvars, agvars, owvars>>
    \/ PackItemUnrecorded /\ UNCHANGED <<vars, wfvars, agvars, owvars>>
    \/ PackBackgroundHeartbeat /\ UNCHANGED <<vars, wfvars, agvars, owvars>>
    \/ PackReturn /\ UNCHANGED <<vars, wfvars, agvars, owvars>>
    \/ PackCancelled /\ UNCHANGED <<vars, wfvars, agvars, owvars>>
    \/ PackWorkerCrash /\ UNCHANGED <<vars, wfvars, agvars, owvars>>
    \/ PackRetry /\ UNCHANGED <<vars, wfvars, agvars, owvars>>

SpecPacking == PackingStartState /\ [][PackingNext]_allvars

\* run_langgraph_agent
AgentStartState == RunnerIdle /\ WorkflowIdle /\ PackingIdle /\ AgentInit /\ OrderIdle

AgentNext ==
    \/ AgentAttemptStart /\ UNCHANGED <<vars, wfvars, pkvars, owvars>>
    \/ AgentSetup /\ UNCHANGED <<vars, wfvars, pkvars, owvars>>
    \/ AgentStreamBegin /\ UNCHANGED <<vars, wfvars, pkvars, owvars>>
    \/ AgentExecStep /\ UNCHANGED <<vars, wfvars, pkvars, owvars>>
    \/ AgentInterrupt /\ UNCHANGED <<vars, wfvars, pkvars, owvars>>
    \/ AgentAfterStep /\ UNCHANGED <<vars, wfvars, pkvars, owvars>>
    \/ AgentFinish /\ UNCHANGED <<vars, wfvars, pkvars, owvars>>
    \/ AgentAttemptFails /\ UNCHANGED <<vars, wfvars, pkvars, owvars>>
    \/ AgentWorkerCrash /\ UNCHANGED <<vars, wfvars, pkvars, owvars>>
    \/ AgentBackgroundHeartbeat /\ UNCHANGED <<vars, wfvars, pkvars, owvars>>
    \/ AgentRetry /\ UNCHANGED <<vars, wfvars, pkvars, owvars>>

SpecAgent == AgentStartState /\ [][AgentNext]_allvars

\* OrderWorkflow with its activities seen from the workflow
OrderStartState ==
    RunnerIdle /\ WorkflowIdle /\ PackingIdle /\ AgentIdle /\ OrderInit

OrderNext ==
    \/ ApproveOrderEarly /\ UNCHANGED <<vars, wfvars, pkvars, agvars>>
    \/ OrderWorkflowStart /\ UNCHANGED <<vars, wfvars, pkvars, agvars>>
    \/ ProcessPaymentEnds /\ UNCHANGED <<vars, wfvars, pkvars, agvars>>
    \/ ReserveInventoryFails /\ UNCHANGED <<vars, wfvars, pkvars, agvars>>
    \/ ReserveInventoryReturns /\ UNCHANGED <<vars, wfvars, pkvars, agvars>>
    \/ PackOrderItemsFails /\ UNCHANGED <<vars, wfvars, pkvars, agvars>>
    \/ PackOrderItemsReturns /\ UNCHANGED <<vars, wfvars, pkvars, agvars>>
    \/ ApproveOrderWhileWaiting /\ UNCHANGED <<vars, wfvars, pkvars, agvars>>
    \/ ApproveOrderAtTimeout /\ UNCHANGED <<vars, wfvars, pkvars, agvars>>
    \/ OrderTimerElapses /\ UNCHANGED <<vars, wfvars, pkvars, agvars>>
    \/ OrderWaitTimesOut /\ UNCHANGED <<vars, wfvars, pkvars, agvars>>
    \/ DeliverOrderReturns /\ UNCHANGED <<vars, wfvars, pkvars, agvars>>

SpecOrder == OrderStartState /\ [][OrderNext]_allvars

\* the host lets every attempt end and every timer fire
SpecOrderFair ==
    /\ OrderStartState
    /\ [][OrderNext]_allvars
    /\ WF_allvars(OrderProgress /\ UNCHANGED <<vars, wfvars, pkvars, agvars>>)

\* ------------------------------------------------------------------ claims
HostCount == host_details[1].superstep_count

HandedBackCount == heartbeat_details[1].superstep_count

\* the output of a run of the thread in which nothing fails
UninterruptedOutput ==
    [final_report |-> FinalReportText, thread_id |-> thread_id,
     superstep_count |-> num_steps]

\* C1: a thread of the checkpoint-capable adapter that failed at any point and
\* was retried returns the output of the run with no failure.
ResumedOutputEqualsUninterrupted ==
    (adapter_kind = "langgraph" /\ pc = "returned") => output = UninterruptedOutput

\* C2: on the checkpoint-capable adapter no completed step is executed again in
\* a retried attempt, and the thread ends with superstep_count = n.
ResumeExecutesOnlyRemainingSteps ==
    adapter_kind = "langgraph" =>
        /\ \A i \in 1..num_steps : executed[i] <= 1
        /\ pc = "returned" => current_checkpoint.superstep_count = num_steps

\* C3 (as stated): the progress count of the payloads the host receives never
\* decreases over the attempts of a thread, whatever the adapter.
HeartbeatCountNeverDecreases ==
    [][host_details # <<>> =>
          host_details'[1].superstep_count >= host_details[1].superstep_count]_vars

\* C3 (amended): with a checkpoint-capable adapter the progress count of the
\* payloads the host receives never decreases over the attempts of a thread.
CheckpointCapableCountNeverDecreases ==
    [][(adapter_kind = "langgraph" /\ host_details # <<>>) =>
          host_details'[1].superstep_count >= host_details[1].superstep_count]_vars

ResumedAttemptHeartbeats ==
    /\ adapter_kind = "langgraph"
    /\ attempt > 1
    /\ heartbeat_details # <<>>
    /\ HandedBackCount >= 1
    /\ immediate_beats >= 1
    /\ last_beat = "background"

\* C4: a retried attempt of the SleepingAdapter, whatever the host hands back,
\* starts with its counters and the progress count at 0 and yields the steps
\* 1, 2, ..., num_steps again.
SleepingRetryRestartsFromZero ==
    (adapter_kind = "sleeping" /\ attempt > 1 /\ heartbeat_task # "none") =>
        /\ sl.steps_completed = Len(yielded)
        /\ sl.total_sleep_time = Len(yielded) * sleep_seconds
        /\ current_checkpoint.superstep_count = Len(yielded)
        /\ \A i \in 1..Len(yielded) : yielded[i] = i
        /\ pc \in {"exhausted", "returned"} => Len(yielded) = num_steps

SleepingRetriedAfterProgress ==
    /\ adapter_kind = "sleeping"
    /\ attempt > 1
    /\ heartbeat_details # <<>>
    /\ HandedBackCount >= 2
    /\ pc = "returned"

\* C5: in every attempt the number of immediate post-step heartbeats equals the
\* number of StepResults yielded so far, also while the next step runs.
ImmediateBeatsEqualYielded == immediate_beats = Len(yielded)

SeveralStepsYielded ==
    /\ pc = "step"
    /\ Len(yielded) >= 2
    /\ background_beats >= 1

\* the count of the attempt's latest immediate heartbeat (the initial one
\* before any step was yielded)
LastImmediateCount ==
    IF yielded = <<>> THEN OrFresh(checkpoint).superstep_count
    ELSE yielded[Len(yielded)]

\* C6: a background heartbeat never carries a lower progress count than the
\* latest immediate heartbeat of the attempt.
BackgroundBeatNotStale ==
    last_beat = "background" => HostCount >= LastImmediateCount

BackgroundBeatAfterStep ==
    /\ last_beat = "background"
    /\ yielded # <<>>
    /\ HostCount > OrFresh(checkpoint).superstep_count

\* C7: once run_adapter has returned or propagated a failure, the background
\* heartbeat task is not running any more: it was cancelled on every exit path
\* taken after it was started.
HeartbeatTaskStoppedAtExit ==
    pc \in {"returned", "failed"} =>
        /\ heartbeat_task # "running"
        /\ (pc = "returned" \/ raised # "none") => heartbeat_task = "cancelled"
        /\ (failure = "CancelledError" /\ current_checkpoint # None) =>
               heartbeat_task = "cancelled"

CancelledWhileBeating ==
    /\ pc = "failed"
    /\ failure = "CancelledError"
    /\ heartbeat_task = "cancelled"
    /\ last_beat = "background"

\* C8: from the moment adapter.setup is about to be called the host holds a
\* payload with the thread's identity, so every later attempt is handed one.
InitialHeartbeatBeforeSetup ==
    /\ pc # "scheduled" =>
           (host_details # <<>> /\ host_details[1].thread_id = thread_id)
    /\ (attempt > 1 /\ pc # "scheduled") =>
           (heartbeat_details # <<>> /\ heartbeat_details[1].thread_id = thread_id)

RetriedBeforeFirstStep ==
    /\ attempt = 2
    /\ pc = "setup"
    /\ heartbeat_details # <<>>
    /\ HandedBackCount = 0
    /\ \A i \in 1..num_steps : executed[i] = 0

\* the number of the last step the adapter has completed
AdapterCount ==
    IF adapter_kind = "langgraph" THEN lg.superstep_count ELSE sl.steps_completed

AdapterFailurePropagates ==
    raised # "none" =>
        /\ pc = "failed"
        /\ failure = raised
        /\ output = None
        /\ final_output_calls = 0
        /\ HostCount < failed_step

RaisedAfterBackgroundBeat ==
    /\ raised # "none"
    /\ pc = "failed"
    /\ failed_step >= 2
    /\ last_beat = "background"

\* C19: with an adapter that does not support checkpointing, a handed-back
\* checkpoint is discarded, setup gets an absent checkpoint, the attempt goes
\* on, and nothing is raised for the mismatch.
MismatchDiscardsCheckpoint ==
    (adapter_kind = "sleeping" /\ heartbeat_details # <<>> /\ pc # "scheduled") =>
        /\ checkpoint = None
        /\ raised = "none"
        /\ failure \in {"none", "CancelledError", "HeartbeatTimeout"}

MismatchAttemptGoesOn ==
    /\ adapter_kind = "sleeping"
    /\ heartbeat_details # <<>>
    /\ HandedBackCount >= 1
    /\ checkpoint = None
    /\ pc = "returned"

ReportReturnedIffNotInterrupted ==
    /\ wf_pc = "done" =>
          /\ last_result # None
          /\ ~last_result.interrupted
          /\ wf_result = last_result.final_report
    /\ (last_result # None /\ ~last_result.interrupted) => wf_pc = "done"
    /\ (last_result # None /\ last_result.interrupted) =>
          /\ wf_pc # "done"
          /\ wf_result \in {NoResult, ExpiredText}
    /\ waits = interrupts

InterruptedThenReported ==
    /\ wf_pc = "done"
    /\ interrupts = 1
    /\ waits = 1
    /\ wf_result = FinalReportText

\* C12: when the signal arrives during the wait and before the timeout, the
\* attempt dispatched next carries the original query and needs_approval and
\* the signal's approved and feedback as resume_value.
SignalResumesWithPayload ==
    wake_signal # None =>
        /\ wf_pc \in {"running", "failed"}
        /\ activity_input # None
        /\ activity_input.query = wf_input.query
        /\ activity_input.needs_approval = wf_input.needs_approval
        /\ activity_input.resume_value =
              [approved |-> wake_signal.approved, feedback |-> wake_signal.feedback]

RejectedWithFeedbackResumed ==
    /\ wf_pc = "running"
    /\ wake_kind = "signal"
    /\ ~tie_seen
    /\ wake_signal = ApprovalResponse(FALSE, "needs more detail")
    /\ wf_input.needs_approval

\* C13: when no signal arrives within the timeout, run ends expired: it
\* returns the expiry text as its value, raises nothing and has no attempt in
\* flight afterwards.
TimeoutEndsExpired ==
    /\ timed_out =>
          /\ wf_pc = "expired"
          /\ wf_result = ExpiredText
          /\ wf_failure = "none"
          /\ activity_input = None
    /\ wf_pc = "expired" => (timed_out /\ last_result.interrupted)

ExpiredWithoutSignal ==
    /\ wf_pc = "expired"
    /\ signals = 0
    /\ timer_fired
    /\ interrupts = 1

\* C14: when the signal and the timeout race, run resumes only if the signal
\* is seen strictly before the timeout; a signal that coincides with the
\* timeout ends in the expired outcome and its payload is never used.
TieResolvesToExpired ==
    tie_seen =>
        /\ wf_pc = "expired"
        /\ activity_input = None
        /\ wake_signal = None

\* C15: approval_response is unset at the moment an attempt is dispatched
\* with that response embedded, so an attempt that carries a resume_value and
\* saw no signal of its own runs with approval_response unset.
SignalClearedAtDispatch ==
    (wf_pc = "running" /\ interrupts >= 1
        /\ activity_input.resume_value # None
        /\ ~signal_while_running) => approval_response = None

\* C16: a signal handled while an attempt runs leaves the attempt and its
\* input as they are, and the wait that follows is satisfied by it: run is
\* never waiting or expired after such a signal.
SignalWhileRunningKept ==
    /\ [](wf_pc \in {"waiting", "expired"} => ~signal_while_running)
    /\ [][(wf_pc = "running" /\ signals' = signals + 1) =>
             /\ activity_input' = activity_input
             /\ act_attempt' = act_attempt
             /\ wf_pc' = "running"
             /\ approval_response' # None]_allvars

StoredSignalSatisfiesWait ==
    /\ wf_pc = "running"
    /\ wake_kind = "stored"
    /\ interrupts = 1
    /\ signals = 1
    /\ activity_input.resume_value = ResumeValue(approval_response)

\* C17: over all attempts of pack_order_items for one order,
\* _generate_packing_slip_id is called exactly once, and an attempt that
\* restored a checkpoint works with the slip id of that checkpoint.
SlipAcquiredOnce ==
    /\ acquisitions <= 1
    /\ pk_pc \in {"persist", "loop", "returned"} => acquisitions = 1
    /\ (pk_pc = "loop" /\ pk_checkpoint # None) =>
          packing_slip_id = pk_checkpoint.packing_slip_id

\* C18: every execution of run ends, in exactly one of: the final report
\* returned, the expiry text returned, the activity's failure raised; the
\* output of an interrupted attempt is never returned.
OutcomeWellFormed ==
    /\ wf_pc = "done" =>
          /\ wf_result = FinalReportText
          /\ wf_failure = "none"
          /\ ~last_result.interrupted
    /\ wf_pc = "expired" => (wf_result = ExpiredText /\ wf_failure = "none")
    /\ wf_pc = "failed" =>
          (wf_result = NoResult /\ wf_failure \in ActivityErrorTypes)
    /\ ~WorkflowClosed => (wf_result = NoResult /\ wf_failure = "none")

RunEndsInOneOutcome ==
    /\ <>WorkflowClosed
    /\ []OutcomeWellFormed

FailedAfterResumeAndRetries ==
    /\ wf_pc = "failed"
    /\ act_attempt = MaximumAttempts
    /\ interrupts >= 1
    /\ wake_kind = "signal"

\* C29: the first attempt run dispatches carries the user's input and no
\* resume_value, whatever signals were delivered; only a pass after an
\* interruption carries a signal's payload.
FirstDispatchHasNoResume ==
    (wf_pc = "running" /\ interrupts = 0) =>
        activity_input = AgentInput(wf_input.query, wf_input.needs_approval, None)

\* C30: a dispatch gets at most maximum_attempts attempts, a failure of a
\* non-retryable type is followed by no further attempt, and in both cases
\* that failure ends the workflow.
RetryPolicyRespected ==
    /\ act_attempt <= MaximumAttempts
    /\ (wf_pc = "running" /\ attempt_error # "none") =>
          attempt_error \notin NonRetryableErrorTypes
    /\ attempt_error \in NonRetryableErrorTypes =>
          (wf_pc = "failed" /\ wf_failure = attempt_error)
    /\ wf_pc = "failed" =>
          /\ wf_failure = attempt_error
          /\ wf_result = NoResult
          /\ attempt_error \in NonRetryableErrorTypes
                \/ act_attempt = MaximumAttempts

NonRetryableAfterRetries ==
    /\ wf_pc = "failed"
    /\ wf_failure = "AuthenticationError"
    /\ act_attempt = 3

\* C22: a fresh thread of n steps in which nothing fails ends with the
\* checkpoint's superstep_count at n, n immediate heartbeats sent, and the
\* value of get_final_output returned.
FreshRunCountsAllSteps ==
    (attempt = 1 /\ pc = "returned") =>
        /\ current_checkpoint.superstep_count = num_steps
        /\ immediate_beats = num_steps
        /\ HostCount = num_steps
        /\ final_output_calls = 1
        /\ adapter_kind = "langgraph" => output = UninterruptedOutput
        /\ adapter_kind = "sleeping" =>
              output = [steps_completed |-> num_steps,
                        total_sleep_time |-> num_steps * sleep_seconds]

FreshLongestRunReturned ==
    /\ attempt = 1
    /\ pc = "returned"
    /\ adapter_kind = "langgraph"
    /\ num_steps = MaxSteps
    /\ background_beats = 0

\* C23: SleepingAdapter.run with num_steps = n yields n StepResults numbered
\* 1..n in order, named sleep_<number>, without checkpoint_id, and
\* get_final_output then reports steps_completed = n.
SleepingYieldsStepsInOrder ==
    adapter_kind = "sleeping" =>
        /\ \A i \in 1..Len(yielded) : yielded[i] = i
        /\ Len(yielded) <= num_steps
        /\ yielded # <<>> =>
              /\ current_checkpoint.superstep_count = Len(yielded)
              /\ current_checkpoint.current_node = SleepStepNames[Len(yielded)]
              /\ current_checkpoint.checkpoint_id = NoId
        /\ pc \in {"exhausted", "returned"} => Len(yielded) = num_steps
        /\ pc = "returned" => output.steps_completed = num_steps

SleepingLongestRunReturned ==
    /\ adapter_kind = "sleeping"
    /\ pc = "returned"
    /\ num_steps = MaxSteps
    /\ Len(yielded) = MaxSteps

\* C25: the first step a resumed attempt of the checkpoint-capable adapter
\* executes is step superstep_count + 1 of the checkpoint it restored, also
\* when the store holds a later state than that checkpoint.
ResumeStartsAfterCheckpoint ==
    (adapter_kind = "langgraph" /\ heartbeat_details # <<>> /\ pc = "step"
        /\ yielded = <<>>) => store.pos + 1 = HandedBackCount + 1

\* C26: LangGraphAdapter.run passes None exactly when setup found pending
\* nodes in the store and the fresh input exactly when it found none; a
\* checkpoint given to setup or not makes no difference.
StreamInputFollowsStore ==
    adapter_kind = "langgraph" =>
        /\ stream_input # "unset" => (stream_input = "None" <=> lg.resuming)
        /\ stream_input # "unset" => (stream_input = "fresh" <=> ~lg.resuming)
        /\ pc = "run" => (lg.resuming <=> StoreNext(store) # {})
        /\ pc = "setup" =>
              /\ LangGraphSetup(None).resuming = (StoreNext(store) # {})
              /\ LangGraphSetup(OrFresh(checkpoint)).resuming = (StoreNext(store) # {})
        /\ (pc = "step" /\ yielded = <<>> /\ stream_input = "None") =>
              (store.started /\ store.pos < num_steps)

PendingWorkContinued ==
    /\ adapter_kind = "langgraph"
    /\ attempt = 2
    /\ stream_input = "None"
    /\ pc = "step"
    /\ store.pos = 1
    /\ HandedBackCount = 0

\* C27: handling a StepResult overwrites the checkpoint's superstep_count and
\* current_node, takes the checkpoint_id over when the StepResult has one and
\* keeps the old one otherwise, and never changes thread_id.
StepResultFrame ==
    /\ [](current_checkpoint # None =>
            \A k \in 1..MaxSteps, cid \in {NoId, store.cid + 1} :
               LET c == UpdateCheckpoint(current_checkpoint,
                                         StepResult(k, SleepStepNames[k], cid))
               IN /\ c.thread_id = current_checkpoint.thread_id
                  /\ c.superstep_count = k
                  /\ c.current_node = SleepStepNames[k]
                  /\ c.checkpoint_id = IF cid = NoId
                                       THEN current_checkpoint.checkpoint_id
                                       ELSE cid)
    /\ [][(Len(yielded') = Len(yielded) + 1) =>
             /\ current_checkpoint'.thread_id = thread_id
             /\ current_checkpoint'.superstep_count = yielded'[Len(yielded')]
             /\ current_checkpoint'.checkpoint_id =
                   IF adapter_kind = "langgraph" THEN store.cid
                   ELSE current_checkpoint.checkpoint_id
             /\ current_checkpoint'.current_node =
                   IF adapter_kind = "langgraph" THEN GraphNodeNames[store.pos]
                   ELSE SleepStepNames[yielded'[Len(yielded')]]]_vars

AdoptedIdThenNextStep ==
    /\ adapter_kind = "langgraph"
    /\ Len(yielded) = 2
    /\ current_checkpoint.checkpoint_id = store.cid
    /\ current_checkpoint.checkpoint_id # NoId

\* C28: in every attempt setup is called once and before run, run is driven
\* once, and get_final_output is called at most once and only after run's
\* sequence is exhausted.
CallRank ==
    [p \in {"scheduled", "setup", "run", "step", "yield", "exhausted",
            "returned", "failed"} |->
        CASE p = "scheduled" -> 0
          [] p = "setup" -> 1
          [] p = "run" -> 2
          [] p \in {"step", "yield"} -> 3
          [] p = "exhausted" -> 4
          [] OTHER -> 5]

AdapterCallsOnceInOrder ==
    /\ [](final_output_calls <= 1)
    /\ [](final_output_calls = 1 => pc = "returned")
    /\ [][attempt' = attempt =>
             /\ CallRank[pc'] >= CallRank[pc]
             /\ (pc = "setup" /\ pc' # "setup") => pc' \in {"run", "failed"}
             /\ (pc' = "run" /\ pc # "run") => pc = "setup"
             /\ (pc = "run" /\ pc' # "run") =>
                   pc' \in {"step", "exhausted", "failed"}
             /\ final_output_calls' # final_output_calls =>
                   /\ pc = "exhausted"
                   /\ pc' = "returned"
                   /\ final_output_calls' = 1]_vars

SecondAttemptCalledFinalOutput ==
    /\ attempt = 2
    /\ pc = "returned"
    /\ final_output_calls = 1
    /\ adapter_kind = "sleeping"

\* C24: while a step runs on, the background loop goes on sending the current
\* checkpoint, interval after interval, until the attempt ends; the
\* heartbeats do not wait for a step boundary.
BackgroundBeatsGoOnInsideStep ==
    /\ \A b \in 0..(MaxBackgroundBeats - 1) :
          (heartbeat_task = "running" /\ pc = "step" /\ background_beats = b)
             ~> (background_beats > b \/ heartbeat_task # "running")
    /\ [][background_beats' > background_beats =>
             /\ heartbeat_task = "running"
             /\ host_details' = <<Encode(current_checkpoint)>>
             /\ pc' = pc]_vars

SeveralBeatsInsideOneStep ==
    /\ pc = "step"
    /\ heartbeat_task = "running"
    /\ background_beats = MaxBackgroundBeats
    /\ yielded = <<1>>
    /\ last_beat = "background"
    /\ HostCount = 1

\* C21: a retried attempt of run_langgraph_agent that restores a checkpoint
\* with k completed supersteps and has no resume_value continues after
\* superstep k: no superstep is executed again and the superstep_count it
\* reports is that of the run with no failure.
RetryContinuesFromSavedSuperstep ==
    ag_resume_value = None =>
        /\ \A i \in 1..ag_num_steps : ag_executed[i] <= 1
        /\ (ag_pc = "returned" /\ ~ag_output.interrupted) =>
              ag_output.superstep_count = ag_num_steps

\* C31: a resumed attempt of pack_order_items starts at last_processed_idx + 1
\* of the restored checkpoint; an item whose checkpoint the host holds is not
\* packed again, items are packed in index order, and the activity returns
\* only after the last item is packed.
HostPackedIdx ==
    IF pk_host_details = <<>> THEN NotStartedIdx
    ELSE pk_host_details[1].last_processed_idx

InventoryRecoversOnFifthAttempt ==
    /\ [][(ow_inventory_down /\ ow_pc = "inventory"
              /\ ow_attempt <= 4 /\ <<ow_pc, ow_attempt>>' # <<ow_pc, ow_attempt>>) =>
             /\ ow_pc' = "inventory"
             /\ ow_attempt' = ow_attempt + 1
             /\ ow_attempts'["reserve_inventory"] = ow_attempt + 1]_owvars
    /\ [][(ow_inventory_down /\ ow_pc = "inventory" /\ ow_pc' # "inventory") =>
             /\ ow_attempt = 5
             /\ ow_attempts["reserve_inventory"] = 5
             /\ ow_pc' \in {"packing", "waiting", "delivery"}
             /\ ow_failure' = "none"]_owvars
    /\ (ow_inventory_down /\ ow_pc = "inventory")
          ~> (/\ ow_pc \in {"packing", "waiting", "delivery"}
              /\ ow_attempts["reserve_inventory"] = 5
              /\ ow_failure = "none")

FulfilledAfterInventoryRecovered ==
    /\ ow_inventory_down
    /\ ow_pc = "fulfilled"
    /\ ow_attempts["reserve_inventory"] = 5
    /\ ow_attempts["process_payment"] = 1

\* C35: deliver_order is executed only after approve_order was received; a
\* wait that ends with no approval returns "Order expired" and deliver_order
\* is never executed; an approval delivered during payment, inventory or
\* packing is kept and lets the wait pass.
DeliveryOnlyAfterApproval ==
    /\ [](ow_attempts["deliver_order"] >= 1 => ow_approved /\ ow_signals >= 1)
    /\ [](ow_pc = "expired" =>
             /\ ow_result = OrderExpiredText
             /\ ow_failure = "none"
             /\ ow_attempts["deliver_order"] = 0)
    /\ [](ow_approved_at \in {"init", "payment", "inventory", "packing"} =>
             /\ ow_approved
             /\ ow_pc \notin {"waiting", "expired"}
             /\ ~ow_timer_fired)
    /\ [][(ow_pc = "waiting" /\ ow_pc' # "waiting" /\ ~ow_approved') =>
             /\ ow_timer_fired
             /\ ow_pc' = "expired"]_owvars
    /\ [][ow_pc = "expired" => ow_pc' = "expired" /\ ow_attempts' = ow_attempts]_owvars

EarlyApprovalLetsWaitPass ==
    /\ ow_pc = "fulfilled"
    /\ ow_approved_at = "packing"
    /\ ow_signals = 1
    /\ ow_trace[Len(ow_trace)] = "deliver_order"

\* C36: the activities run in the order process_payment, reserve_inventory,
\* pack_order_items (only with items to pack), deliver_order; process_payment
\* is attempted at most once, and its failure ends the workflow with no
\* later activity executed.
OrderActivitySequence ==
    IF ow_items > 0
    THEN <<"process_payment", "reserve_inventory", "pack_order_items",
           "deliver_order">>
    ELSE <<"process_payment", "reserve_inventory", "deliver_order">>

ActivitiesInFixedOrder ==
    /\ Len(ow_trace) <= Len(OrderActivitySequence)
    /\ ow_trace = SubSeq(OrderActivitySequence, 1, Len(ow_trace))
    /\ \A a \in OrderActivities :
          ow_attempts[a] >= 1 <=> (\E i \in 1..Len(ow_trace) : ow_trace[i] = a)
    /\ ow_attempts["process_payment"] <= 1
    /\ ow_items = 0 => ow_attempts["pack_order_items"] = 0
    /\ ow_pc = "fulfilled" => ow_trace = OrderActivitySequence
    /\ ProcessPayment(ow_card, ow_now) # "ok" =>
          /\ ow_pc \in {"init", "payment", "failed"}
          /\ ow_trace \in {<<>>, <<"process_payment">>}
          /\ ow_pc = "failed" => ow_failure = ProcessPayment(ow_card, ow_now)

PaymentFailureEndedWorkflow ==
    /\ ow_pc = "failed"
    /\ ow_failure = "ApplicationError"
    /\ ow_trace = <<"process_payment">>
    /\ ow_items > 0
    /\ ow_signals = MaxSignals

\* C33: every heartbeat payload of run_adapter and of run_langgraph_agent,
\* immediate or background, pairs its superstep_count with the checkpoint_id
\* of the store snapshot taken after that step, never with the id of the
\* step before.  Stated for the first attempt on a thread the store has not
\* seen, where the snapshot after step k is the k-th after the input's.
AgentSnapshotAfter(k) == EmptyStore.cid + 1 + k

HeartbeatPayloadConsistent ==
    (ag_attempt = 1 /\ ag_resume_value = None /\ ag_host_details # <<>>) =>
        LET p == ag_host_details[1]
        IN IF p.superstep_count = 0
           THEN p.checkpoint_id = NoId
           ELSE p.checkpoint_id = AgentSnapshotAfter(p.superstep_count)

\* C34: when adapter.run yields finitely many steps and nothing fails,
\* run_adapter returns; the background heartbeat loop, which never ends by
\* itself, is cancelled at the return and does not hold the attempt up.
AttemptRunsToItsEnd ==
    /\ (pc = "scheduled") ~> (pc = "returned" \/ pc = "failed")
    /\ \A n \in 1..MaxSteps :
          (InAttempt /\ num_steps = n) ~> (pc = "returned" \/ pc = "failed")
    /\ [](pc = "returned" =>
             /\ heartbeat_task = "cancelled"
             /\ output # None
             /\ failure = "none")
    /\ [][pc = "returned" => UNCHANGED vars]_vars

ReturnedWithHeartbeatLoopBusy ==
    /\ pc = "returned"
    /\ attempt = 1
    /\ num_steps = MaxSteps
    /\ background_beats = MaxBackgroundBeats
    /\ last_beat = "immediate"
    /\ heartbeat_task = "cancelled"

\* C37: when several approval signals were delivered before run dispatches
\* the next attempt, the resume payload of that attempt is the payload of the
\* signal delivered last.
LatestSignalIsResumed ==
    [][(/\ wf_pc' = "running"
        /\ wf_pc # "running" \/ interrupts' # interrupts
        /\ delivered' # <<>>) =>
          activity_input'.resume_value =
             ResumeValue(delivered'[Len(delivered')])]_wfvars

TwoSignalsThenResumed ==
    /\ wf_pc = "running"
    /\ interrupts = 1
    /\ Len(delivered) = 2
    /\ delivered[1] # delivered[2]
    /\ ~signal_while_running
    /\ wake_kind = "stored"
    /\ activity_input.resume_value = ResumeValue(delivered[2])

\* C38: run_langgraph_agent reports interrupted = true exactly when the store
\* has pending next nodes for the thread once the step stream is exhausted,
\* and interrupted = false exactly when none remain.
InterruptedIffNodesPending ==
    ag_pc = "returned" =>
        /\ ag_output.interrupted <=> (ag_store.started /\ ag_store.pos < ag_num_steps)
        /\ ag_output.interrupted => ag_output.final_report = NoReport
        /\ ~ag_output.interrupted => ag_output.final_report = FinalReportText

ReturnedInterruptedMidGraph ==
    /\ ag_pc = "returned"
    /\ ag_output.interrupted
    /\ ag_resume_value = None
    /\ ag_num_steps = MaxSteps
    /\ ag_store.pos = 1
    /\ ag_output.superstep_count = 1

====
